---- MODULE Spec2Model ----
(***************************************************************************)
(* Sensen: a two-player real-time card battle whose simulation core is     *)
(* driven by per-frame Bevy systems.  The module models the gameplay       *)
(* components of the two player entities, the message queues between the   *)
(* systems and the systems themselves, and states the properties of the    *)
(* natural-language specification against them.                            *)
(*                                                                         *)
(* Numbers.  The program's f32 values are held as integers in fixed units: *)
(*   time (delta, durations, timers) ......... 1/2 second                  *)
(*   Cost.rate, Acceleration.bonus_rate ...... 1/2 per second              *)
(*   Cost.current, card costs ................ 1/4                         *)
(*   Health, Block, Thorns, damage, heal ..... 1/8 point                   *)
(*   Strength ................................ 1/2                         *)
(* so that rate * delta, the 3/4 and 3/2 damage multipliers and the        *)
(* products used by the periodic powers are exact.  The 64-bit generator   *)
(* state of a Deck is held as eight bytes, least significant first.        *)
(***************************************************************************)
EXTENDS Integers, Sequences, FiniteSets, TLC

(***************************************************************************)
(* 64-bit wrapping arithmetic (u64::wrapping_mul, wrapping_add, ^, %)      *)
(***************************************************************************)
Byte == 0..255

U64 == [1..8 -> Byte]

\* Bind(value, Body) is Body(value): a let binding, the value computed once
Bind(value, Body(_)) == Body(value)

U64FromInt(n) ==
  <<n % 256, (n \div 256) % 256, (n \div 65536) % 256, 0, 0, 0, 0, 0>>

\* a * b mod 2^64
WrappingMul(a, b) ==
  LET Col(k) ==
        LET S[i \in 0..k] ==
              a[i + 1] * b[k - i + 1] + (IF i = 0 THEN 0 ELSE S[i - 1])
        IN  S[k]
      T[k \in 1..8] == Col(k - 1) + (IF k = 1 THEN 0 ELSE T[k - 1] \div 256)
  IN  <<T[1] % 256, T[2] % 256, T[3] % 256, T[4] % 256,
        T[5] % 256, T[6] % 256, T[7] % 256, T[8] % 256>>

\* a + n mod 2^64, n a small natural
WrappingAdd(a, n) ==
  LET T[k \in 1..8] == a[k] + (IF k = 1 THEN n ELSE T[k - 1] \div 256)
  IN  <<T[1] % 256, T[2] % 256, T[3] % 256, T[4] % 256,
        T[5] % 256, T[6] % 256, T[7] % 256, T[8] % 256>>

XorByte(x, y) ==
  LET B[i \in 0..8] ==
        IF i = 0 THEN 0
        ELSE B[i - 1]
             + (2 ^ (i - 1))
               * ((((x \div (2 ^ (i - 1))) % 2) + ((y \div (2 ^ (i - 1))) % 2)) % 2)
  IN  B[8]

Xor64(a, b) ==
  <<XorByte(a[1], b[1]), XorByte(a[2], b[2]), XorByte(a[3], b[3]),
    XorByte(a[4], b[4]), XorByte(a[5], b[5]), XorByte(a[6], b[6]),
    XorByte(a[7], b[7]), XorByte(a[8], b[8])>>

\* a % n for a small positive n
Mod64(a, n) ==
  LET R[k \in 0..8] ==
        IF k = 0 THEN 0 ELSE (R[k - 1] * 256 + a[9 - k]) % n
  IN  R[8]

(***************************************************************************)
(* Rules (game/rules.rs) and input flag words (input.rs)                   *)
(***************************************************************************)
DRAW_COST == 8          \* 2.0, in quarters
DRAW_COUNT == 3
MAX_HAND_SIZE == 10
BLOCK_DECAY_RATE == 20  \* points per second

INPUT_DRAW == 1

\* bit i of a 16-bit flag word
FlagSet(flags, bit) == (flags \div (2 ^ bit)) % 2 = 1

\* card_flag(index): the flag of hand slot index, None above slot 9
NoFlag == 0
card_flag(index) == IF index < 10 THEN 2 ^ (index + 1) ELSE NoFlag

(***************************************************************************)
(* Deck, Hand, DiscardPile (game/deck.rs)                                  *)
(***************************************************************************)
\* 0x23d3_44d3_6f2a_7c15
DEFAULT_DECK_SEED == <<21, 124, 42, 111, 211, 68, 211, 35>>
\* 0x9e3779b97f4a7c15
GOLDEN_RATIO == <<21, 124, 74, 127, 185, 121, 55, 158>>
\* 6364136223846793005 = 0x5851f42d4c957f2d
LCG_MULTIPLIER == <<45, 127, 149, 76, 45, 244, 81, 88>>

seed_for_handle_shared(match_seed, handle) ==
  Xor64(DEFAULT_DECK_SEED, match_seed)

seed_for_handle(match_seed, handle) ==
  Xor64(Xor64(DEFAULT_DECK_SEED, match_seed),
        WrappingMul(U64FromInt(handle), GOLDEN_RATIO))

\* Deck::next_rng: the new generator state, which is also the value returned
next_rng(rng_state) == WrappingAdd(WrappingMul(rng_state, LCG_MULTIPLIER), 1)

Swap(s, i, j) ==
  [s EXCEPT ![i] = s[j], ![j] = s[i]]

\* Deck::shuffle on [cards, rng_state]; indices of the code are 0-based
RECURSIVE ShuffleFrom(_, _, _)
ShuffleFrom(cards, rng, i) ==
  IF i < 1 THEN [cards |-> cards, rng_state |-> rng]
  ELSE Bind(next_rng(rng), LAMBDA r :
         LET j == Mod64(r, i + 1)
         IN  ShuffleFrom(Swap(cards, i + 1, j + 1), r, i - 1))

Deck_shuffle(deck) ==
  IF Len(deck.cards) < 2 THEN deck
  ELSE ShuffleFrom(deck.cards, deck.rng_state, Len(deck.cards) - 1)

\* A removal that pops the last card whatever the index
swap_remove_popping_last(s, index) == SubSeq(s, 1, Len(s) - 1)

\* Vec::swap_remove(index), index 0-based
swap_remove(s, index) ==
  LET n == Len(s)
  IN  IF index + 1 = n THEN SubSeq(s, 1, n - 1)
      ELSE SubSeq([s EXCEPT ![index + 1] = s[n]], 1, n - 1)

NoCard == -1

\* Deck::draw: [deck, card]; card = NoCard is None
Deck_draw(deck) ==
  IF Len(deck.cards) = 0 THEN [deck |-> deck, card |-> NoCard]
  ELSE Bind(next_rng(deck.rng_state), LAMBDA r :
         LET index == Mod64(r, Len(deck.cards))
         IN  [deck |-> [cards |-> swap_remove(deck.cards, index),
                        rng_state |-> r],
              card |-> deck.cards[index + 1]])

\* Deck::add_cards written with an assignment in place of extend
Deck_add_cards_assigning(deck, cards) == [deck EXCEPT !.cards = cards]

Deck_add_cards(deck, cards) == [deck EXCEPT !.cards = deck.cards \o cards]

Deck_new_with_seed(cards, seed) == [cards |-> cards, rng_state |-> seed]

\* Hand::remove_card written with swap_remove: the last card takes the slot
Hand_remove_card_swapping(cards, index) ==
  IF index < Len(cards)
  THEN [cards |-> [i \in 1..(Len(cards) - 1) |->
                     IF i = index + 1 THEN cards[Len(cards)] ELSE cards[i]],
        card |-> cards[index + 1]]
  ELSE [cards |-> cards, card |-> NoCard]

\* Hand::remove_card(index), index 0-based: [cards, card]
Hand_remove_card(cards, index) ==
  IF index < Len(cards)
  THEN [cards |-> SubSeq(cards, 1, index)
                     \o SubSeq(cards, index + 2, Len(cards)),
        card |-> cards[index + 1]]
  ELSE [cards |-> cards, card |-> NoCard]

(***************************************************************************)
(* Cards (game/cards/mod.rs): CardEffect, CardDef, CardRegistry            *)
(***************************************************************************)

CardDef(card_type, cost, effect) ==
  [card_type |-> card_type, cost |-> cost, effect |-> effect]

\* The cards registered by register_attack_cards, register_skill_cards,
\* register_power_cards and register_status_cards, keyed by CardId.
\* Costs are in quarters, amounts in eighths, durations in half seconds.
Registry ==
  LET
    Damage(amount) == [k |-> "Damage", amount |-> amount]
    MultiHit(damage, hits) == [k |-> "MultiHit", damage |-> damage, hits |-> hits]
    Heal(amount) == [k |-> "Heal", amount |-> amount]
    Draw(count) == [k |-> "Draw", count |-> count]
    Block(amount) == [k |-> "Block", amount |-> amount]
    Thorns(amount) == [k |-> "Thorns", amount |-> amount]
    Strength(amount) == [k |-> "Strength", amount |-> amount]
    Vulnerable(duration) == [k |-> "Vulnerable", duration |-> duration]
    SelfVulnerable(duration) == [k |-> "SelfVulnerable", duration |-> duration]
    Weak(duration) == [k |-> "Weak", duration |-> duration]
    Accelerate(bonus_rate, duration) ==
      [k |-> "Accelerate", bonus_rate |-> bonus_rate, duration |-> duration]
    BodySlam == [k |-> "BodySlam"]
    Bloodletting(amount) == [k |-> "Bloodletting", amount |-> amount]
    DoubleBlock == [k |-> "DoubleBlock"]
    DoubleStrength == [k |-> "DoubleStrength"]
    Rage(block_per_attack) == [k |-> "Rage", block_per_attack |-> block_per_attack]
    Metallicize(block_per_second) ==
      [k |-> "Metallicize", block_per_second |-> block_per_second]
    Combust(self_damage, enemy_damage) ==
      [k |-> "Combust", self_damage |-> self_damage, enemy_damage |-> enemy_damage]
    DemonForm(strength_per_second) ==
      [k |-> "DemonForm", strength_per_second |-> strength_per_second]
    Barricade == [k |-> "Barricade"]
    Juggernaut(damage_on_block) ==
      [k |-> "Juggernaut", damage_on_block |-> damage_on_block]
    DarkEmbrace(draw) == [k |-> "DarkEmbrace", draw |-> draw]
    Evolve(draw) == [k |-> "Evolve", draw |-> draw]
    FeelNoPain(block) == [k |-> "FeelNoPain", block |-> block]
    FireBreathing(damage) == [k |-> "FireBreathing", damage |-> damage]
    Rupture(strength) == [k |-> "Rupture", strength |-> strength]
    Corruption == [k |-> "Corruption"]
    Brutality(self_damage, draw, interval) ==
      [k |-> "Brutality", self_damage |-> self_damage, draw |-> draw,
       interval |-> interval]
    Exhaust == [k |-> "Exhaust"]
    AddStatus(card_id) == [k |-> "AddStatus", card_id |-> card_id]
    Combo(effects) == [k |-> "Combo", effects |-> effects]
  IN
       1 :> CardDef("Attack", 4,  \* Strike
             Damage(480))
    @@ 2 :> CardDef("Attack", 8,  \* Bash
             Combo(<<Damage(640), Vulnerable(4)>>))
    @@ 3 :> CardDef("Attack", 2,  \* Anger
             Damage(480))
    @@ 4 :> CardDef("Attack", 4,  \* Cleave
             Damage(640))
    @@ 5 :> CardDef("Attack", 8,  \* Clothesline
             Combo(<<Damage(960), Weak(4)>>))
    @@ 6 :> CardDef("Attack", 4,  \* Headbutt
             Damage(720))
    @@ 7 :> CardDef("Attack", 4,  \* IronWave
             Combo(<<Damage(400), Block(400)>>))
    @@ 8 :> CardDef("Attack", 4,  \* PommelStrike
             Combo(<<Damage(720), Draw(1)>>))
    @@ 9 :> CardDef("Attack", 4,  \* SwordBoomerang
             MultiHit(240, 3))
    @@ 10 :> CardDef("Attack", 4,  \* ThunderClap
             Combo(<<Damage(320), Vulnerable(2)>>))
    @@ 11 :> CardDef("Attack", 4,  \* TwinStrike
             MultiHit(400, 2))
    @@ 12 :> CardDef("Attack", 4,  \* WildStrike
             Combo(<<Damage(960), AddStatus(301)>>))
    @@ 13 :> CardDef("Attack", 4,  \* BodySlam
             BodySlam)
    @@ 14 :> CardDef("Attack", 8,  \* Carnage
             Damage(1600))
    @@ 15 :> CardDef("Attack", 4,  \* Dropkick
             Combo(<<Damage(400), Draw(1), Accelerate(1, 4)>>))
    @@ 16 :> CardDef("Attack", 4,  \* Hemokinesis
             Combo(<<Bloodletting((-160)), Damage(1200)>>))
    @@ 17 :> CardDef("Attack", 4,  \* Pummel
             MultiHit(160, 4))
    @@ 18 :> CardDef("Attack", 4,  \* Rampage
             Damage(640))
    @@ 19 :> CardDef("Attack", 2,  \* RecklessCharge
             Combo(<<Damage(560), AddStatus(301)>>))
    @@ 20 :> CardDef("Attack", 8,  \* SearingBlow
             Damage(960))
    @@ 21 :> CardDef("Attack", 8,  \* Uppercut
             Combo(<<Damage(1040), Weak(2), Vulnerable(2)>>))
    @@ 22 :> CardDef("Attack", 12,  \* Whirlwind
             MultiHit(400, 3))
    @@ 23 :> CardDef("Attack", 12,  \* Bludgeon
             Damage(2560))
    @@ 24 :> CardDef("Attack", 4,  \* Feed
             Combo(<<Damage(800), Heal(240)>>))
    @@ 25 :> CardDef("Attack", 8,  \* FiendFire
             Damage(2240))
    @@ 26 :> CardDef("Attack", 8,  \* Immolate
             Combo(<<Damage(1680), AddStatus(302)>>))
    @@ 27 :> CardDef("Attack", 8,  \* Reaper
             Combo(<<Damage(320), Heal(320)>>))
    @@ 100 :> CardDef("Skill", 4,  \* Defend
             Block(400))
    @@ 101 :> CardDef("Skill", 4,  \* Armaments
             Block(400))
    @@ 102 :> CardDef("Skill", 2,  \* Flex
             Strength(4))
    @@ 103 :> CardDef("Skill", 4,  \* Havoc
             Draw(1))
    @@ 104 :> CardDef("Skill", 4,  \* ShrugItOff
             Combo(<<Block(640), Draw(1)>>))
    @@ 105 :> CardDef("Skill", 4,  \* TrueGrit
             Block(560))
    @@ 106 :> CardDef("Skill", 2,  \* Warcry
             Draw(2))
    @@ 107 :> CardDef("Skill", 2,  \* BattleTrance
             Draw(3))
    @@ 108 :> CardDef("Skill", 2,  \* Bloodletting
             Combo(<<Bloodletting((-240)), Accelerate(2, 10)>>))
    @@ 109 :> CardDef("Skill", 4,  \* BurningPact
             Draw(2))
    @@ 110 :> CardDef("Skill", 4,  \* Disarm
             Weak(4))
    @@ 111 :> CardDef("Skill", 8,  \* Entrench
             DoubleBlock)
    @@ 112 :> CardDef("Skill", 8,  \* FlameBarrier
             Combo(<<Block(960), Thorns(32)>>))
    @@ 113 :> CardDef("Skill", 4,  \* GhostlyArmor
             Block(800))
    @@ 114 :> CardDef("Skill", 4,  \* InfernalBlade
             Draw(2))
    @@ 115 :> CardDef("Skill", 2,  \* Intimidate
             Weak(2))
    @@ 116 :> CardDef("Skill", 4,  \* PowerThrough
             Combo(<<Block(1200), AddStatus(301), AddStatus(301)>>))
    @@ 117 :> CardDef("Skill", 2,  \* Rage
             Rage(240))
    @@ 118 :> CardDef("Skill", 4,  \* SecondWind
             Block(1600))
    @@ 119 :> CardDef("Skill", 4,  \* SeeingRed
             Accelerate(3, 8))
    @@ 120 :> CardDef("Skill", 4,  \* Sentinel
             Block(400))
    @@ 121 :> CardDef("Skill", 8,  \* Shockwave
             Combo(<<Weak(6), Vulnerable(6)>>))
    @@ 122 :> CardDef("Skill", 4,  \* SpotWeakness
             Strength(6))
    @@ 123 :> CardDef("Skill", 4,  \* DoubleTap
             Draw(1))
    @@ 124 :> CardDef("Skill", 4,  \* Exhume
             Draw(2))
    @@ 125 :> CardDef("Skill", 8,  \* Impervious
             Block(2400))
    @@ 126 :> CardDef("Skill", 4,  \* LimitBreak
             DoubleStrength)
    @@ 127 :> CardDef("Skill", 2,  \* Offering
             Combo(<<Bloodletting((-480)), Accelerate(4, 10), Draw(3)>>))
    @@ 200 :> CardDef("Power", 4,  \* Combust
             Combust(40, 200))
    @@ 201 :> CardDef("Power", 8,  \* DarkEmbrace
             DarkEmbrace(1))
    @@ 202 :> CardDef("Power", 4,  \* Evolve
             Evolve(1))
    @@ 203 :> CardDef("Power", 4,  \* FeelNoPain
             FeelNoPain(240))
    @@ 204 :> CardDef("Power", 4,  \* FireBreathing
             FireBreathing(480))
    @@ 205 :> CardDef("Power", 4,  \* Inflame
             Strength(4))
    @@ 206 :> CardDef("Power", 4,  \* Metallicize
             Metallicize(120))
    @@ 207 :> CardDef("Power", 4,  \* Rupture
             Rupture(2))
    @@ 208 :> CardDef("Power", 12,  \* Barricade
             Barricade)
    @@ 209 :> CardDef("Power", 2,  \* Berserk
             Combo(<<SelfVulnerable(4), Accelerate(1, 1998)>>))
    @@ 210 :> CardDef("Power", 2,  \* Brutality
             Brutality(40, 1, 6))
    @@ 211 :> CardDef("Power", 12,  \* Corruption
             Corruption)
    @@ 212 :> CardDef("Power", 12,  \* DemonForm
             DemonForm(2))
    @@ 213 :> CardDef("Power", 8,  \* Juggernaut
             Juggernaut(400))
    @@ 300 :> CardDef("Status", 3996,  \* Dazed
             Exhaust)
    @@ 301 :> CardDef("Status", 3996,  \* Wound
             Exhaust)
    @@ 302 :> CardDef("Status", 3996,  \* Burn
             Bloodletting((-160)))
    @@ 303 :> CardDef("Status", 4,  \* Slimed
             Exhaust)
    @@ 304 :> CardDef("Status", 3996,  \* Void
             Exhaust)
  
  \* CardRegistry::get(id) is Some for exactly these ids

Registered(id) == id \in DOMAIN Registry

(***************************************************************************)
(* Player entities (game/player.rs) and their components                   *)
(***************************************************************************)
\* Option<T>: the empty sequence is None, a one-element sequence is Some
None == <<>>
Some(x) == <<x>>
IsSome(o) == Len(o) > 0
Unwrap(o) == o[1]

\* CardRegistry::get(id): Some(card_def) for a registered id, None otherwise
\* CardRegistry::get that answers the Strike for an id it does not hold
CardRegistry_get_or_strike(id) ==
  Bind(Registry, LAMBDA cards :
         IF id \in DOMAIN cards THEN Some(cards[id]) ELSE Some(cards[1]))

CardRegistry_get(id) ==
  Bind(Registry, LAMBDA cards :
         IF id \in DOMAIN cards THEN Some(cards[id]) ELSE None)

Max(a, b) == IF a >= b THEN a ELSE b
Min(a, b) == IF a <= b THEN a ELSE b

\* The two player entities, in spawn order (the order queries visit them)
Players == {"Local", "Opponent"}
PlayerOrder == <<"Local", "Opponent">>

\* opponent_entity(player, &players): the other entity carrying a PlayerHandle
opponent_entity(player) == IF player = "Local" THEN "Opponent" ELSE "Local"

Health_new(max) == [current |-> max, max |-> max]
\* Health::take_damage without the floor at 0
Health_take_damage_unfloored(health, amount) ==
  [health EXCEPT !.current = health.current - amount]

Health_take_damage(health, amount) ==
  [health EXCEPT !.current = Max(health.current - amount, 0)]
\* Health::heal without the cap at max
Health_heal_uncapped(health, amount) ==
  [health EXCEPT !.current = health.current + amount]

Health_heal(health, amount) ==
  [health EXCEPT !.current = Min(health.current + amount, health.max)]
Health_is_dead(health) == health.current <= 0

Block_gain(block, amount) == [current |-> Max(block.current + amount, 0)]
Thorns_gain(thorns, amount) == [damage |-> Max(thorns.damage + amount, 0)]

Cost_new(rate) == [current |-> 0, rate |-> rate]
Cost_can_afford(cost, amount) == cost.current >= amount
\* Cost::try_spend that keeps what a refused spend could pay
Cost_try_spend_partial(cost, amount) ==
  IF cost.current >= amount
  THEN [ok |-> TRUE, cost |-> [cost EXCEPT !.current = cost.current - amount]]
  ELSE [ok |-> FALSE, cost |-> [cost EXCEPT !.current = 0]]

\* Cost::try_spend: [ok, cost]
Cost_try_spend(cost, amount) ==
  IF cost.current >= amount
  THEN [ok |-> TRUE, cost |-> [cost EXCEPT !.current = cost.current - amount]]
  ELSE [ok |-> FALSE, cost |-> cost]

Acceleration_new(bonus_rate, duration) ==
  [bonus_rate |-> bonus_rate, remaining |-> Max(duration, 0)]
Acceleration_extend(accel, bonus_rate, duration) ==
  [bonus_rate |-> accel.bonus_rate + bonus_rate,
   remaining |-> Max(accel.remaining, duration)]

Strength_gain(strength, amount) == [amount |-> strength.amount + amount]
Vulnerable_apply(vulnerable, duration) ==
  [duration |-> Max(vulnerable.duration + duration, 0)]
Weak_apply(weak, duration) == [duration |-> Max(weak.duration + duration, 0)]

\* Rage lasts 10 seconds (effect.rs: RageEffect::new(block_per_attack, 10.0))
RAGE_DURATION == 20
RageEffect_new(block_per_attack, duration) ==
  [block_per_attack |-> block_per_attack, duration |-> duration]
RageEffect_is_active(rage) == rage.duration > 0
CombustEffect_new(self_damage, enemy_damage) ==
  [self_damage |-> self_damage, enemy_damage |-> enemy_damage, timer |-> 0]
DemonFormEffect_new(strength_per_second) ==
  [strength_per_second |-> strength_per_second, accumulated |-> 0]
BrutalityEffect_new(self_damage, draw, interval) ==
  [self_damage |-> self_damage, draw |-> draw, interval |-> interval,
   timer |-> 0]

\* PlayerBundle::new / OpponentBundle::new: the deck is seeded for the handle
\* and shuffled; every other component starts at its default.
PlayerBundle_new(match_seed, handle, cost_rate, initial_deck, hp) ==
  [handle |-> handle,
   health |-> Health_new(hp),
   block |-> [current |-> 0],
   thorns |-> [damage |-> 0],
   cost |-> Cost_new(cost_rate),
   accel |-> None,
   deck |-> Deck_shuffle(Deck_new_with_seed(initial_deck,
                                            seed_for_handle(match_seed, handle))),
   hand |-> [cards |-> <<>>],
   discard |-> [cards |-> <<>>],
   strength |-> [amount |-> 0],
   vulnerable |-> [duration |-> 0],
   weak |-> [duration |-> 0],
   rage |-> None, metallicize |-> None, combust |-> None, demon_form |-> None,
   barricade |-> None, juggernaut |-> None, dark_embrace |-> None,
   evolve |-> None, feel_no_pain |-> None, fire_breathing |-> None,
   rupture |-> None, corruption |-> None, brutality |-> None]

(***************************************************************************)
(* Messages.  A world is the record [players, msgs, changed, next_result,  *)
(* events] the systems of one frame transform.  msgs holds, per message    *)
(* type, the messages written and not yet read by the system that reads    *)
(* them; events lists what the frame did, in order, for the observers.     *)
(***************************************************************************)
NoMessages ==
  [draw |-> <<>>, play |-> <<>>, card_played |-> <<>>, card_exhausted |-> <<>>,
   damage |-> <<>>, heal |-> <<>>, gain_block |-> <<>>, gain_thorns |-> <<>>,
   thorns_damage |-> <<>>, death |-> <<>>, strength |-> <<>>,
   vulnerable |-> <<>>, weak |-> <<>>, add_status |-> <<>>]

Write(w, type, msg) == [w EXCEPT !.msgs[type] = Append(@, msg)]
Emit(w, event) == [w EXCEPT !.events = Append(@, event)]

DrawCardsMessage(player, count) == [player |-> player, count |-> count]
PlayCardMessage(player, hand_index) ==
  [player |-> player, hand_index |-> hand_index]
CardPlayedMessage(player, card_id) == [player |-> player, card_id |-> card_id]
DamageMessage(target, amount, source, kind) ==
  [target |-> target, amount |-> amount, source |-> source, kind |-> kind]
TargetAmount(target, amount) == [target |-> target, amount |-> amount]

(***************************************************************************)
(* Tick systems (game/cost.rs, game/status.rs), delta in half seconds      *)
(***************************************************************************)
\* A query that updates the components of every player independently
EachPlayer(Body(_), w) ==
  [w EXCEPT !.players = [Local |-> Body(w.players["Local"]),
                         Opponent |-> Body(w.players["Opponent"])]]

\* tick_acceleration_delta that removes an expired Acceleration without
\* taking its bonus out of Cost.rate
tick_acceleration_delta_keeping_bonus(delta, w) ==
  LET Body(pl) ==
         IF ~IsSome(pl.accel) THEN pl
         ELSE IF Unwrap(pl.accel).remaining - delta <= 0
              THEN [pl EXCEPT !.accel = None]
              ELSE [pl EXCEPT !.accel =
                      Some([Unwrap(pl.accel) EXCEPT !.remaining = @ - delta])]
  IN  EachPlayer(Body, w)

tick_acceleration_delta(delta, w) ==
  LET Body(pl) ==
         IF ~IsSome(pl.accel) THEN pl
         ELSE LET accel == Unwrap(pl.accel)
                  remaining == accel.remaining - delta
              IN  IF remaining <= 0
                  THEN [pl EXCEPT
                          !.cost.rate = Max(pl.cost.rate - accel.bonus_rate, 0),
                          !.accel = None]
                  ELSE [pl EXCEPT
                          !.accel = Some([accel EXCEPT !.remaining = remaining])]
  IN  EachPlayer(Body, w)

\* accumulate_cost_delta that takes rate * delta away
accumulate_cost_delta_draining(delta, w) ==
  LET Body(pl) == [pl EXCEPT !.cost.current = @ - pl.cost.rate * delta]
  IN  EachPlayer(Body, w)

accumulate_cost_delta(delta, w) ==
  LET Body(pl) == [pl EXCEPT !.cost.current = @ + pl.cost.rate * delta]
  IN  EachPlayer(Body, w)

TickDown(duration, delta) ==
  IF duration > 0 THEN Max(duration - delta, 0) ELSE duration

\* tick_status_effects_delta with a Demon Form that flushes 1.0 per tick
tick_status_effects_delta_flushing_one(delta, w) ==
  LET Body(pl) ==
     LET p1 == [pl EXCEPT
                  !.vulnerable.duration = TickDown(@, delta),
                  !.weak.duration = TickDown(@, delta),
                  !.rage = IF IsSome(@)
                           THEN Some([Unwrap(@) EXCEPT
                                        !.duration = TickDown(@, delta)])
                           ELSE @]
     IN  IF ~IsSome(p1.demon_form) THEN p1
         ELSE LET demon == Unwrap(p1.demon_form)
                  accumulated == demon.accumulated
                                   + demon.strength_per_second * delta
                  gain == 2
              IN  IF accumulated >= 2
                  THEN [p1 EXCEPT
                          !.strength = Strength_gain(@, gain),
                          !.demon_form =
                             Some([demon EXCEPT
                                     !.accumulated = accumulated - gain])]
                  ELSE [p1 EXCEPT
                          !.demon_form =
                             Some([demon EXCEPT !.accumulated = accumulated])]
  IN  EachPlayer(Body, w)

\* Demon Form: accumulated and Strength are in halves, so 1.0 is 2 and
\* floor() rounds down to an even number of halves
tick_status_effects_delta(delta, w) ==
  LET Body(pl) ==
     LET p1 == [pl EXCEPT
                  !.vulnerable.duration = TickDown(@, delta),
                  !.weak.duration = TickDown(@, delta),
                  !.rage = IF IsSome(@)
                           THEN Some([Unwrap(@) EXCEPT
                                        !.duration = TickDown(@, delta)])
                           ELSE @]
     IN  IF ~IsSome(p1.demon_form) THEN p1
         ELSE LET demon == Unwrap(p1.demon_form)
                  accumulated == demon.accumulated
                                   + demon.strength_per_second * delta
                  gain == (accumulated \div 2) * 2
              IN  IF accumulated >= 2
                  THEN [p1 EXCEPT
                          !.strength = Strength_gain(@, gain),
                          !.demon_form =
                             Some([demon EXCEPT
                                     !.accumulated = accumulated - gain])]
                  ELSE [p1 EXCEPT
                          !.demon_form =
                             Some([demon EXCEPT !.accumulated = accumulated])]
  IN  EachPlayer(Body, w)

\* Combust: while timer >= 1.0 { timer -= 1.0; self damage; enemy damage }
COMBUST_PERIOD == 2
\* Combust with an if in place of the while: one batch per tick at most
CombustLoop_once(w, entity, combust) ==
  IF combust.timer >= COMBUST_PERIOD
  THEN LET w1 == IF combust.self_damage > 0
                 THEN Write(w, "damage",
                            DamageMessage(entity, combust.self_damage,
                                          Some(entity), "Power"))
                 ELSE w
           w2 == IF combust.enemy_damage > 0
                 THEN Write(w1, "damage",
                            DamageMessage(opponent_entity(entity),
                                          combust.enemy_damage,
                                          Some(entity), "Power"))
                 ELSE w1
       IN  [w2 EXCEPT !.players[entity].combust =
              Some([combust EXCEPT !.timer = @ - COMBUST_PERIOD])]
  ELSE [w EXCEPT !.players[entity].combust = Some(combust)]

RECURSIVE CombustLoop(_, _, _)
CombustLoop(w, entity, combust) ==
  IF combust.timer >= COMBUST_PERIOD
  THEN LET w1 == IF combust.self_damage > 0
                 THEN Write(w, "damage",
                            DamageMessage(entity, combust.self_damage,
                                          Some(entity), "Power"))
                 ELSE w
           w2 == IF combust.enemy_damage > 0
                 THEN Write(w1, "damage",
                            DamageMessage(opponent_entity(entity),
                                          combust.enemy_damage,
                                          Some(entity), "Power"))
                 ELSE w1
       IN  CombustLoop(w2, entity,
                       [combust EXCEPT !.timer = @ - COMBUST_PERIOD])
  ELSE [w EXCEPT !.players[entity].combust = Some(combust)]

RECURSIVE BrutalityLoop(_, _, _)
BrutalityLoop(w, entity, brutality) ==
  IF brutality.timer >= brutality.interval
  THEN LET w1 == IF brutality.self_damage > 0
                 THEN Write(w, "damage",
                            DamageMessage(entity, brutality.self_damage,
                                          Some(entity), "Power"))
                 ELSE w
           w2 == IF brutality.draw > 0
                 THEN Write(w1, "draw", DrawCardsMessage(entity, brutality.draw))
                 ELSE w1
       IN  BrutalityLoop(w2, entity,
                         [brutality EXCEPT !.timer = @ - brutality.interval])
  ELSE [w EXCEPT !.players[entity].brutality = Some(brutality)]

\* One loop of a system over the player entities, in query order
RECURSIVE ForPlayers(_, _, _)
ForPlayers(Body(_, _), w, i) ==
  IF i > Len(PlayerOrder) THEN w
  ELSE ForPlayers(Body, Body(w, PlayerOrder[i]), i + 1)

tick_power_effects_delta(delta, w) ==
  LET MetallicizeBody(v, entity) ==
        LET m == v.players[entity].metallicize
        IN  IF IsSome(m) /\ Unwrap(m).block_per_second > 0
            THEN Write(v, "gain_block",
                       TargetAmount(entity, Unwrap(m).block_per_second * delta))
            ELSE v
      CombustBody(v, entity) ==
        LET c == v.players[entity].combust
        IN  IF IsSome(c)
            THEN CombustLoop(v, entity,
                             [Unwrap(c) EXCEPT !.timer = @ + delta])
            ELSE v
      BrutalityBody(v, entity) ==
        LET b == v.players[entity].brutality
        IN  IF IsSome(b) /\ Unwrap(b).interval > 0
            THEN BrutalityLoop(v, entity,
                               [Unwrap(b) EXCEPT !.timer = @ + delta])
            ELSE v
  IN  ForPlayers(BrutalityBody,
                 ForPlayers(CombustBody,
                            ForPlayers(MetallicizeBody, w, 1), 1), 1)

\* tick_block_decay_delta querying every Block, Barricade or not
tick_block_decay_delta_ignoring_barricade(delta, w) ==
  LET Body(pl) ==
         IF pl.block.current > 0
         THEN [pl EXCEPT !.block.current =
                 Max(pl.block.current - BLOCK_DECAY_RATE * 4 * delta, 0)]
         ELSE pl
  IN  EachPlayer(Body, w)

\* Block decays by BLOCK_DECAY_RATE points per second: 4 * rate eighths per
\* half second
tick_block_decay_delta(delta, w) ==
  LET Body(pl) ==
         IF ~IsSome(pl.barricade) /\ pl.block.current > 0
         THEN [pl EXCEPT !.block.current =
                 Max(pl.block.current - BLOCK_DECAY_RATE * 4 * delta, 0)]
         ELSE pl
  IN  EachPlayer(Body, w)

(***************************************************************************)
(* Input reconciliation (game/input_buffer.rs)                             *)
(***************************************************************************)
\* The loop over the hand slots without its break: every set bit is served
RECURSIVE ScanSlots_without_break(_, _, _, _, _)
ScanSlots_without_break(flags, player_entity, hand, w, i) ==
  IF i >= MAX_HAND_SIZE THEN w
  ELSE Bind(IF i < Len(hand.cards) THEN CardRegistry_get(hand.cards[i + 1])
            ELSE None, LAMBDA found :
    IF FlagSet(flags, i + 1) /\ IsSome(found)
       /\ Cost_try_spend(w.players[player_entity].cost, Unwrap(found).cost).ok
    THEN ScanSlots_without_break(
           flags, player_entity, hand,
           Emit(Write([w EXCEPT !.players[player_entity].cost =
                         Cost_try_spend(@, Unwrap(found).cost).cost],
                      "play", PlayCardMessage(player_entity, i)),
                [e |-> "PlayRequested", player |-> player_entity,
                 hand_index |-> i]),
           i + 1)
    ELSE ScanSlots_without_break(flags, player_entity, hand, w, i + 1))

\* The loop over the hand slots of apply_local_input_flags, from slot i
RECURSIVE ScanSlots(_, _, _, _, _)
ScanSlots(flags, player_entity, hand, w, i) ==
  IF i >= MAX_HAND_SIZE THEN w
  ELSE IF card_flag(i) = NoFlag
       THEN ScanSlots(flags, player_entity, hand, w, i + 1)
  ELSE IF FlagSet(flags, i + 1)
       THEN \* the first slot whose bit is set ends the scan (break)
            Bind(IF i < Len(hand.cards)
                 THEN CardRegistry_get(hand.cards[i + 1]) ELSE None,
                 LAMBDA found :
              IF IsSome(found)
              THEN LET card_def == Unwrap(found)
                       pl == w.players[player_entity]
                       effective_cost ==
                         IF IsSome(pl.corruption)
                            /\ card_def.card_type = "Skill"
                         THEN 0 ELSE card_def.cost
                       spend == Cost_try_spend(pl.cost, effective_cost)
                   IN  IF spend.ok
                       THEN Emit(Write([w EXCEPT
                                          !.players[player_entity].cost =
                                             spend.cost],
                                       "play",
                                       PlayCardMessage(player_entity, i)),
                                 [e |-> "PlayRequested",
                                  player |-> player_entity, hand_index |-> i])
                       ELSE w
              ELSE w)
  ELSE ScanSlots(flags, player_entity, hand, w, i + 1)

apply_local_input_flags(flags, player_entity, w) ==
  LET spend == Cost_try_spend(w.players[player_entity].cost, DRAW_COST)
      w1 == IF FlagSet(flags, 0) /\ spend.ok
            THEN Write([w EXCEPT !.players[player_entity].cost = spend.cost],
                       "draw", DrawCardsMessage(player_entity, DRAW_COUNT))
            ELSE w
  IN  ScanSlots(flags, player_entity, w.players[player_entity].hand, w1, 0)

\* apply_pending_inputs: take the flags of the frame; nothing to do for 0
apply_pending_inputs(flags, w) ==
  IF flags = 0 THEN w
  ELSE apply_local_input_flags(flags, "Local",
                               Emit(w, [e |-> "Input", flags |-> flags]))

(***************************************************************************)
(* Deck systems (game/deck.rs)                                             *)
(***************************************************************************)
\* The while loop of handle_draw_cards without its hand size check
RECURSIVE DrawLoop_without_ceiling(_, _, _, _, _)
DrawLoop_without_ceiling(w, player, draws_remaining, evolve_bonus, fire_damage) ==
  LET pl == w.players[player]
  IN  IF draws_remaining <= 0 THEN w
      ELSE
        LET recycle == Len(pl.deck.cards) = 0 /\ Len(pl.discard.cards) > 0
        IN
        Bind(IF recycle
             THEN Deck_shuffle(Deck_add_cards(pl.deck, pl.discard.cards))
             ELSE pl.deck, LAMBDA deck1 :
        Bind(IF recycle
             THEN Emit([w EXCEPT !.players[player].discard.cards = <<>>,
                                 !.players[player].deck = deck1],
                       [e |-> "DeckReshuffled", player |-> player,
                        deck |-> deck1.cards])
             ELSE w, LAMBDA w1 :
        Bind(Deck_draw(deck1), LAMBDA drawn :
          IF drawn.card = NoCard THEN w1
          ELSE
            Bind(Emit([w1 EXCEPT
                         !.players[player].deck = drawn.deck,
                         !.players[player].hand.cards = Append(@, drawn.card)],
                      [e |-> "Drawn", player |-> player,
                       card_id |-> drawn.card]), LAMBDA w2 :
            Bind(CardRegistry_get(drawn.card), LAMBDA found :
              LET is_status == IsSome(found)
                               /\ Unwrap(found).card_type = "Status"
                  w3 == IF is_status /\ fire_damage > 0
                        THEN Write(w2, "damage",
                                   DamageMessage(opponent_entity(player),
                                                 fire_damage, Some(player),
                                                 "Power"))
                        ELSE w2
                  remaining == (draws_remaining - 1)
                               + (IF is_status /\ evolve_bonus > 0
                                  THEN evolve_bonus ELSE 0)
              IN  DrawLoop_without_ceiling(w3, player, remaining, evolve_bonus,
                           fire_damage))))))

\* The while loop of handle_draw_cards for one DrawCardsMessage
RECURSIVE DrawLoop(_, _, _, _, _)
DrawLoop(w, player, draws_remaining, evolve_bonus, fire_damage) ==
  LET pl == w.players[player]
  IN  IF draws_remaining <= 0 THEN w
      ELSE IF Len(pl.hand.cards) >= MAX_HAND_SIZE THEN w
      ELSE
        LET recycle == Len(pl.deck.cards) = 0 /\ Len(pl.discard.cards) > 0
        IN
        Bind(IF recycle
             THEN Deck_shuffle(Deck_add_cards(pl.deck, pl.discard.cards))
             ELSE pl.deck, LAMBDA deck1 :
        Bind(IF recycle
             THEN Emit([w EXCEPT !.players[player].discard.cards = <<>>,
                                 !.players[player].deck = deck1],
                       [e |-> "DeckReshuffled", player |-> player,
                        deck |-> deck1.cards])
             ELSE w, LAMBDA w1 :
        Bind(Deck_draw(deck1), LAMBDA drawn :
          IF drawn.card = NoCard THEN w1
          ELSE
            Bind(Emit([w1 EXCEPT
                         !.players[player].deck = drawn.deck,
                         !.players[player].hand.cards = Append(@, drawn.card)],
                      [e |-> "Drawn", player |-> player,
                       card_id |-> drawn.card]), LAMBDA w2 :
            Bind(CardRegistry_get(drawn.card), LAMBDA found :
              LET is_status == IsSome(found)
                               /\ Unwrap(found).card_type = "Status"
                  w3 == IF is_status /\ fire_damage > 0
                        THEN Write(w2, "damage",
                                   DamageMessage(opponent_entity(player),
                                                 fire_damage, Some(player),
                                                 "Power"))
                        ELSE w2
                  remaining == (draws_remaining - 1)
                               + (IF is_status /\ evolve_bonus > 0
                                  THEN evolve_bonus ELSE 0)
              IN  DrawLoop(w3, player, remaining, evolve_bonus,
                           fire_damage))))))

RECURSIVE DrawMessages_ignoring_fire(_, _)
DrawMessages_ignoring_fire(w, msgs) ==
  IF msgs = <<>> THEN w
  ELSE LET msg == Head(msgs)
           pl == w.players[msg.player]
           evolve_bonus == IF IsSome(pl.evolve)
                           THEN Unwrap(pl.evolve).draw_on_status ELSE 0
       IN  DrawMessages_ignoring_fire(
             DrawLoop(w, msg.player, msg.count, evolve_bonus, 0), Tail(msgs))

RECURSIVE DrawMessages(_, _)
DrawMessages(w, msgs) ==
  IF msgs = <<>> THEN w
  ELSE LET msg == Head(msgs)
           pl == w.players[msg.player]
           evolve_bonus == IF IsSome(pl.evolve)
                           THEN Unwrap(pl.evolve).draw_on_status ELSE 0
           fire_damage == IF IsSome(pl.fire_breathing)
                          THEN Unwrap(pl.fire_breathing).damage_on_status_draw
                          ELSE 0
       IN  DrawMessages(DrawLoop(w, msg.player, msg.count, evolve_bonus,
                                 fire_damage),
                        Tail(msgs))

handle_draw_cards(w) ==
  DrawMessages([w EXCEPT !.msgs.draw = <<>>], w.msgs.draw)

\* handle_play_card returning a Skill played under Corruption to the deck
RECURSIVE PlayMessages_returning_corrupted(_, _)
PlayMessages_returning_corrupted(w, msgs) ==
  IF msgs = <<>> THEN w
  ELSE
    LET msg == Head(msgs)
        pl == w.players[msg.player]
    IN
    Bind(Hand_remove_card(pl.hand.cards, msg.hand_index), LAMBDA removed :
    Bind(CardRegistry_get(removed.card), LAMBDA found :
    LET card_id == removed.card
        known == IsSome(found)
        is_power == known /\ Unwrap(found).card_type = "Power"
        is_exhaust == known /\ Unwrap(found).effect.k = "Exhaust"
        is_corrupted == known /\ Unwrap(found).card_type = "Skill"
                        /\ IsSome(pl.corruption)
        return_to_deck == ~is_power /\ ~is_exhaust
        counts_as_exhaust == is_exhaust \/ is_corrupted
        w1 == [w EXCEPT
                 !.players[msg.player].hand.cards = removed.cards,
                 !.players[msg.player].deck =
                    IF return_to_deck THEN Deck_add_cards(@, <<card_id>>)
                    ELSE @]
        w2 == Emit(Write(w1, "card_played",
                         CardPlayedMessage(msg.player, card_id)),
                   [e |-> "CardPlayed", player |-> msg.player,
                    card_id |-> card_id])
        w3 == IF counts_as_exhaust
              THEN Emit(Write(w2, "card_exhausted",
                              CardPlayedMessage(msg.player, card_id)),
                        [e |-> "CardExhausted", player |-> msg.player,
                         card_id |-> card_id])
              ELSE w2
    IN  PlayMessages_returning_corrupted(IF card_id = NoCard THEN w ELSE w3, Tail(msgs))))

RECURSIVE PlayMessages(_, _)
PlayMessages(w, msgs) ==
  IF msgs = <<>> THEN w
  ELSE
    LET msg == Head(msgs)
        pl == w.players[msg.player]
    IN
    Bind(Hand_remove_card(pl.hand.cards, msg.hand_index), LAMBDA removed :
    Bind(CardRegistry_get(removed.card), LAMBDA found :
    LET card_id == removed.card
        known == IsSome(found)
        is_power == known /\ Unwrap(found).card_type = "Power"
        is_exhaust == known /\ Unwrap(found).effect.k = "Exhaust"
        is_corrupted == known /\ Unwrap(found).card_type = "Skill"
                        /\ IsSome(pl.corruption)
        return_to_deck == ~is_power /\ ~is_exhaust /\ ~is_corrupted
        counts_as_exhaust == is_exhaust \/ is_corrupted
        w1 == [w EXCEPT
                 !.players[msg.player].hand.cards = removed.cards,
                 !.players[msg.player].deck =
                    IF return_to_deck THEN Deck_add_cards(@, <<card_id>>)
                    ELSE @]
        w2 == Emit(Write(w1, "card_played",
                         CardPlayedMessage(msg.player, card_id)),
                   [e |-> "CardPlayed", player |-> msg.player,
                    card_id |-> card_id])
        w3 == IF counts_as_exhaust
              THEN Emit(Write(w2, "card_exhausted",
                              CardPlayedMessage(msg.player, card_id)),
                        [e |-> "CardExhausted", player |-> msg.player,
                         card_id |-> card_id])
              ELSE w2
    IN  PlayMessages(IF card_id = NoCard THEN w ELSE w3, Tail(msgs))))

handle_play_card(w) ==
  PlayMessages([w EXCEPT !.msgs.play = <<>>], w.msgs.play)

(***************************************************************************)
(* Effect resolution (game/effect.rs)                                      *)
(***************************************************************************)
\* base + strength * 10, then Weak (x 0.75) of the source, Vulnerable
\* (x 1.5) of the target, floored at 0.  Strength is in halves and damage in
\* eighths, so one half of Strength adds 40.
\* attack_damage without the Weak multiplier of the source
attack_damage_ignoring_weak(base, player, opponent, player_strength, w) ==
  LET raw == base + player_strength * 40
      total == IF w.players[opponent].vulnerable.duration > 0
               THEN (raw * 3) \div 2 ELSE raw
  IN  Max(total, 0)

attack_damage(base, player, opponent, player_strength, w) ==
  LET raw == base + player_strength * 40
      weakened == IF w.players[player].weak.duration > 0
                  THEN (raw * 3) \div 4 ELSE raw
      total == IF w.players[opponent].vulnerable.duration > 0
               THEN (weakened * 3) \div 2 ELSE weakened
  IN  Max(total, 0)

\* commands.entity(player).insert(component): applied after the system
Insert(w, player, component, value) ==
  [w EXCEPT !.commands =
     Append(@, [player |-> player, component |-> component, value |-> value])]

RECURSIVE WriteTimes(_, _, _, _)
WriteTimes(w, type, msg, n) ==
  IF n <= 0 THEN w ELSE WriteTimes(Write(w, type, msg), type, msg, n - 1)

RECURSIVE apply_card_effect(_, _, _, _, _)
RECURSIVE ComboLoop(_, _, _, _, _)
RECURSIVE ComboLoop_reversed(_, _, _, _, _)
ComboLoop_reversed(effects, player, opponent, player_strength, w) ==
  IF effects = <<>> THEN w
  ELSE ComboLoop_reversed(SubSeq(effects, 1, Len(effects) - 1), player,
                          opponent, player_strength,
                          apply_card_effect(effects[Len(effects)], player,
                                            opponent, player_strength, w))

ComboLoop(effects, player, opponent, player_strength, w) ==
  IF effects = <<>> THEN w
  ELSE ComboLoop(Tail(effects), player, opponent, player_strength,
                 apply_card_effect(Head(effects), player, opponent,
                                   player_strength, w))

apply_card_effect(effect, player, opponent, player_strength, w) ==
  CASE effect.k = "Damage" ->
         Write(w, "damage",
               DamageMessage(opponent,
                             attack_damage(effect.amount, player, opponent,
                                           player_strength, w),
                             Some(player), "Attack"))
    [] effect.k = "MultiHit" ->
         WriteTimes(w, "damage",
                    DamageMessage(opponent,
                                  attack_damage(effect.damage, player, opponent,
                                                player_strength, w),
                                  Some(player), "Attack"),
                    effect.hits)
    [] effect.k = "Heal" ->
         Write(w, "heal", TargetAmount(player, effect.amount))
    [] effect.k = "Draw" ->
         Write(w, "draw", DrawCardsMessage(player, effect.count))
    [] effect.k = "Block" ->
         Write(w, "gain_block", TargetAmount(player, effect.amount))
    [] effect.k = "Thorns" ->
         Write(w, "gain_thorns", TargetAmount(player, effect.amount))
    [] effect.k = "Strength" ->
         Write(w, "strength", TargetAmount(player, effect.amount))
    [] effect.k = "Vulnerable" ->
         Write(w, "vulnerable", TargetAmount(opponent, effect.duration))
    [] effect.k = "SelfVulnerable" ->
         Write(w, "vulnerable", TargetAmount(player, effect.duration))
    [] effect.k = "Weak" ->
         Write(w, "weak", TargetAmount(opponent, effect.duration))
    [] effect.k = "Accelerate" ->
         LET pl == w.players[player]
             w1 == [w EXCEPT !.players[player].cost.rate = @ + effect.bonus_rate]
         IN  IF IsSome(pl.accel)
             THEN [w1 EXCEPT !.players[player].accel =
                     Some(Acceleration_extend(Unwrap(pl.accel),
                                              effect.bonus_rate,
                                              effect.duration))]
             ELSE Insert(w1, player, "accel",
                         Acceleration_new(effect.bonus_rate, effect.duration))
    [] effect.k = "BodySlam" ->
         Write(w, "damage",
               DamageMessage(opponent,
                             attack_damage(w.players[player].block.current,
                                           player, opponent, player_strength, w),
                             Some(player), "Attack"))
    [] effect.k = "Bloodletting" ->
         IF effect.amount < 0
         THEN Write(w, "damage",
                    DamageMessage(player, -effect.amount, Some(player), "Power"))
         ELSE Write(w, "heal", TargetAmount(player, effect.amount))
    [] effect.k = "DoubleBlock" ->
         Write(w, "gain_block",
               TargetAmount(player, w.players[player].block.current))
    [] effect.k = "DoubleStrength" ->
         Write(w, "strength", TargetAmount(player, player_strength))
    [] effect.k = "Rage" ->
         Insert(w, player, "rage",
                RageEffect_new(effect.block_per_attack, RAGE_DURATION))
    [] effect.k = "Metallicize" ->
         Insert(w, player, "metallicize",
                [block_per_second |-> effect.block_per_second])
    [] effect.k = "Combust" ->
         Insert(w, player, "combust",
                CombustEffect_new(effect.self_damage, effect.enemy_damage))
    [] effect.k = "DemonForm" ->
         Insert(w, player, "demon_form",
                DemonFormEffect_new(effect.strength_per_second))
    [] effect.k = "Barricade" ->
         Insert(w, player, "barricade", [marker |-> TRUE])
    [] effect.k = "Juggernaut" ->
         Insert(w, player, "juggernaut",
                [damage_on_block |-> effect.damage_on_block])
    [] effect.k = "DarkEmbrace" ->
         Insert(w, player, "dark_embrace", [draw_on_exhaust |-> effect.draw])
    [] effect.k = "Evolve" ->
         Insert(w, player, "evolve", [draw_on_status |-> effect.draw])
    [] effect.k = "FeelNoPain" ->
         Insert(w, player, "feel_no_pain", [block_on_exhaust |-> effect.block])
    [] effect.k = "FireBreathing" ->
         Insert(w, player, "fire_breathing",
                [damage_on_status_draw |-> effect.damage])
    [] effect.k = "Rupture" ->
         Insert(w, player, "rupture",
                [strength_on_self_damage |-> effect.strength])
    [] effect.k = "Corruption" ->
         Insert(w, player, "corruption", [marker |-> TRUE])
    [] effect.k = "Brutality" ->
         Insert(w, player, "brutality",
                BrutalityEffect_new(effect.self_damage, effect.draw,
                                    effect.interval))
    [] effect.k = "Exhaust" -> w
    [] effect.k = "AddStatus" ->
         Write(w, "add_status", CardPlayedMessage(player, effect.card_id))
    [] effect.k = "Combo" ->
         ComboLoop(effect.effects, player, opponent, player_strength, w)

\* The deferred commands applied so that a component already attached stays
RECURSIVE ApplyCommands_keeping_first(_, _)
ApplyCommands_keeping_first(w, commands) ==
  IF commands = <<>> THEN w
  ELSE LET c == Head(commands)
       IN  ApplyCommands_keeping_first(
             IF IsSome(w.players[c.player][c.component]) THEN w
             ELSE [w EXCEPT !.players[c.player][c.component] = Some(c.value)],
             Tail(commands))

\* The deferred commands of a system, applied in the order they were issued
RECURSIVE ApplyCommands(_, _)
ApplyCommands(w, commands) ==
  IF commands = <<>> THEN w
  ELSE LET c == Head(commands)
       IN  ApplyCommands([w EXCEPT !.players[c.player][c.component] =
                                      Some(c.value)],
                         Tail(commands))

Flush(w) == ApplyCommands([w EXCEPT !.commands = <<>>], w.commands)

RECURSIVE CardPlayedLoop(_, _)
CardPlayedLoop(w, msgs) ==
  IF msgs = <<>> THEN w
  ELSE
    LET event == Head(msgs)
    IN
    Bind(CardRegistry_get(event.card_id), LAMBDA found :
      IF ~IsSome(found) THEN CardPlayedLoop(w, Tail(msgs))
      ELSE
        LET card_def == Unwrap(found)
            opponent == opponent_entity(event.player)
            player_strength == w.players[event.player].strength.amount
        IN
        Bind(apply_card_effect(card_def.effect, event.player, opponent,
                               player_strength, w), LAMBDA w1 :
          LET rage == w1.players[event.player].rage
              w2 == IF card_def.card_type = "Attack" /\ IsSome(rage)
                       /\ RageEffect_is_active(Unwrap(rage))
                    THEN Write(w1, "gain_block",
                               TargetAmount(event.player,
                                            Unwrap(rage).block_per_attack))
                    ELSE w1
          IN  CardPlayedLoop(w2, Tail(msgs))))

\* The CardExhaustedMessage loop with Feel No Pain skipped when Dark Embrace
\* answered the message
RECURSIVE ExhaustedLoop_first_hook_only(_, _)
ExhaustedLoop_first_hook_only(w, msgs) ==
  IF msgs = <<>> THEN w
  ELSE
    LET event == Head(msgs)
        pl == w.players[event.player]
        w1 == IF IsSome(pl.dark_embrace)
                 /\ Unwrap(pl.dark_embrace).draw_on_exhaust > 0
              THEN Write(w, "draw",
                         DrawCardsMessage(event.player,
                                          Unwrap(pl.dark_embrace).draw_on_exhaust))
              ELSE w
        w2 == IF w1 = w
                 /\ IsSome(pl.feel_no_pain)
                 /\ Unwrap(pl.feel_no_pain).block_on_exhaust > 0
              THEN Write(w1, "gain_block",
                         TargetAmount(event.player,
                                      Unwrap(pl.feel_no_pain).block_on_exhaust))
              ELSE w1
    IN  ExhaustedLoop_first_hook_only(w2, Tail(msgs))

RECURSIVE ExhaustedLoop(_, _)
ExhaustedLoop(w, msgs) ==
  IF msgs = <<>> THEN w
  ELSE
    LET event == Head(msgs)
        pl == w.players[event.player]
        w1 == IF IsSome(pl.dark_embrace)
                 /\ Unwrap(pl.dark_embrace).draw_on_exhaust > 0
              THEN Write(w, "draw",
                         DrawCardsMessage(event.player,
                                          Unwrap(pl.dark_embrace).draw_on_exhaust))
              ELSE w
        w2 == IF IsSome(pl.feel_no_pain)
                 /\ Unwrap(pl.feel_no_pain).block_on_exhaust > 0
              THEN Write(w1, "gain_block",
                         TargetAmount(event.player,
                                      Unwrap(pl.feel_no_pain).block_on_exhaust))
              ELSE w1
    IN  ExhaustedLoop(w2, Tail(msgs))

apply_card_effects(w) ==
  Bind(CardPlayedLoop([w EXCEPT !.msgs.card_played = <<>>],
                      w.msgs.card_played), LAMBDA w1 :
    Flush(ExhaustedLoop([w1 EXCEPT !.msgs.card_exhausted = <<>>],
                        w1.msgs.card_exhausted)))

RECURSIVE ForMessages(_, _, _)
ForMessages(Body(_, _), w, msgs) ==
  IF msgs = <<>> THEN w
  ELSE ForMessages(Body, Body(w, Head(msgs)), Tail(msgs))

apply_status_effects(w) ==
  LET StrengthBody(v, msg) ==
        [v EXCEPT !.players[msg.target].strength = Strength_gain(@, msg.amount)]
      VulnerableBody(v, msg) ==
        [v EXCEPT !.players[msg.target].vulnerable =
                     Vulnerable_apply(@, msg.amount)]
      WeakBody(v, msg) ==
        [v EXCEPT !.players[msg.target].weak = Weak_apply(@, msg.amount)]
      AddStatusBody(v, msg) ==
        Emit([v EXCEPT !.players[msg.player].discard.cards =
                          Append(@, msg.card_id)],
             [e |-> "StatusAdded", player |-> msg.player,
              card_id |-> msg.card_id])
      w0 == [w EXCEPT !.msgs.strength = <<>>, !.msgs.vulnerable = <<>>,
                      !.msgs.weak = <<>>, !.msgs.add_status = <<>>]
  IN  ForMessages(AddStatusBody,
        ForMessages(WeakBody,
          ForMessages(VulnerableBody,
            ForMessages(StrengthBody, w0, w.msgs.strength),
            w.msgs.vulnerable),
          w.msgs.weak),
        w.msgs.add_status)

(***************************************************************************)
(* Health systems (game/health.rs)                                         *)
(***************************************************************************)
\* The damage kind written by attack effects (DamageKind::Direct in
\* health.rs, DamageKind::Attack in effect.rs) is the one that reflects.
ReflectingKind == "Attack"

handle_gain_block(w) ==
  LET Body(v, msg) ==
        [v EXCEPT !.players[msg.target].block = Block_gain(@, msg.amount)]
  IN  ForMessages(Body, [w EXCEPT !.msgs.gain_block = <<>>], w.msgs.gain_block)

handle_gain_thorns(w) ==
  LET Body(v, msg) ==
        [v EXCEPT !.players[msg.target].thorns = Thorns_gain(@, msg.amount)]
  IN  ForMessages(Body, [w EXCEPT !.msgs.gain_thorns = <<>>],
                  w.msgs.gain_thorns)

\* handle_damage without the test of the damage kind: every damage from a
\* known source reflects
DamageBody_reflecting_any_kind(w, msg) ==
  LET pl == w.players[msg.target]
      amount == Max(msg.amount, 0)
      absorbed == Min(amount, pl.block.current)
      w1 == [w EXCEPT !.players[msg.target].block.current = @ - absorbed,
                      !.players[msg.target].health =
                         IF amount > absorbed
                         THEN Health_take_damage(@, amount - absorbed) ELSE @,
                      !.changed = IF amount > absorbed
                                  THEN @ \cup {msg.target} ELSE @]
      reflects == IsSome(msg.source) /\ pl.thorns.damage > 0 /\ msg.amount > 0
      w2 == Emit(w1, [e |-> "Damage", target |-> msg.target,
                      amount |-> msg.amount, source |-> msg.source,
                      kind |-> msg.kind,
                      block |-> pl.block.current,
                      health |-> pl.health.current,
                      thorns |-> pl.thorns.damage,
                      block_after |-> w1.players[msg.target].block.current,
                      health_after |-> w1.players[msg.target].health.current,
                      reflected |-> reflects])
  IN  IF reflects
      THEN Write(w2, "thorns_damage",
                 [target |-> Unwrap(msg.source), amount |-> pl.thorns.damage,
                  source |-> msg.target])
      ELSE w2

\* handle_damage reflecting once per run: a second hit of the same run is
\* not reflected
DamageBody_reflecting_once(w, msg) ==
  LET pl == w.players[msg.target]
      amount == Max(msg.amount, 0)
      absorbed == Min(amount, pl.block.current)
      remaining == amount - absorbed
      w1 == [w EXCEPT !.players[msg.target].block.current =
                         Max(pl.block.current - absorbed, 0)]
      w2 == IF remaining > 0
            THEN [w1 EXCEPT
                    !.players[msg.target].health =
                       Health_take_damage(@, remaining),
                    !.changed = @ \cup {msg.target}]
            ELSE w1
      reflects == msg.kind = ReflectingKind /\ IsSome(msg.source)
                  /\ w.msgs.thorns_damage = <<>>
                  /\ pl.thorns.damage > 0 /\ msg.amount > 0
      w3 == Emit(w2, [e |-> "Damage", target |-> msg.target,
                      amount |-> msg.amount, source |-> msg.source,
                      kind |-> msg.kind,
                      block |-> pl.block.current,
                      health |-> pl.health.current,
                      thorns |-> pl.thorns.damage,
                      block_after |-> w2.players[msg.target].block.current,
                      health_after |-> w2.players[msg.target].health.current,
                      reflected |-> reflects])
  IN  IF reflects
      THEN Write(w3, "thorns_damage",
                 [target |-> Unwrap(msg.source), amount |-> pl.thorns.damage,
                  source |-> msg.target])
      ELSE w3

\* The body of handle_damage for one DamageMessage
DamageBody(w, msg) ==
  LET pl == w.players[msg.target]
      amount == Max(msg.amount, 0)
      absorbed == Min(amount, pl.block.current)
      remaining == amount - absorbed
      w1 == [w EXCEPT !.players[msg.target].block.current =
                         Max(pl.block.current - absorbed, 0)]
      w2 == IF remaining > 0
            THEN [w1 EXCEPT
                    !.players[msg.target].health =
                       Health_take_damage(@, remaining),
                    !.changed = @ \cup {msg.target}]
            ELSE w1
      reflects == msg.kind = ReflectingKind /\ IsSome(msg.source)
                  /\ pl.thorns.damage > 0 /\ msg.amount > 0
      w3 == Emit(w2, [e |-> "Damage", target |-> msg.target,
                      amount |-> msg.amount, source |-> msg.source,
                      kind |-> msg.kind,
                      block |-> pl.block.current,
                      health |-> pl.health.current,
                      thorns |-> pl.thorns.damage,
                      block_after |-> w2.players[msg.target].block.current,
                      health_after |-> w2.players[msg.target].health.current,
                      reflected |-> reflects])
  IN  IF reflects
      THEN Write(w3, "thorns_damage",
                 [target |-> Unwrap(msg.source), amount |-> pl.thorns.damage,
                  source |-> msg.target])
      ELSE w3

handle_damage(w) ==
  ForMessages(DamageBody, [w EXCEPT !.msgs.damage = <<>>], w.msgs.damage)

\* Written after handle_damage has read its messages: the reflected damage
\* is read by handle_damage in the next frame.
handle_thorns_damage(w) ==
  LET Body(v, msg) ==
        Write(v, "damage",
              DamageMessage(msg.target, msg.amount, Some(msg.source), "Thorns"))
  IN  ForMessages(Body, [w EXCEPT !.msgs.thorns_damage = <<>>],
                  w.msgs.thorns_damage)

handle_heal(w) ==
  LET Body(v, msg) ==
        [v EXCEPT !.players[msg.target].health = Health_heal(@, msg.amount),
                  !.changed = @ \cup {msg.target}]
  IN  ForMessages(Body, [w EXCEPT !.msgs.heal = <<>>], w.msgs.heal)

\* Query<(Entity, &Health), Changed<Health>>
check_death(w) ==
  LET Body(v, entity) ==
        IF entity \in w.changed /\ Health_is_dead(v.players[entity].health)
        THEN Emit(Write(v, "death", [entity |-> entity]),
                  [e |-> "Death", entity |-> entity])
        ELSE v
  IN  ForPlayers(Body, [w EXCEPT !.changed = {}], 1)

handle_game_over(w) ==
  LET Body(v, msg) ==
        IF msg.entity = "Local" THEN [v EXCEPT !.next_result = Some("Defeat")]
        ELSE IF msg.entity = "Opponent"
        THEN [v EXCEPT !.next_result = Some("Victory")]
        ELSE v
  IN  ForMessages(Body, [w EXCEPT !.msgs.death = <<>>], w.msgs.death)

(***************************************************************************)
(* The offline Update schedule (main.rs, game/mod.rs and the plugins)      *)
(***************************************************************************)
\* AppSystems::TickTimers holds two chains that are not ordered against each
\* other: (tick_acceleration, accumulate_cost) of cost.rs and
\* (tick_status_effects, tick_power_effects, tick_block_decay) of status.rs.
TickSystems ==
  {"tick_acceleration", "accumulate_cost", "tick_status_effects",
   "tick_power_effects", "tick_block_decay"}

\* The ordered pairs when cost.rs registers its two systems without .chain()
TickChains_cost_unchained ==
  {<<"tick_status_effects", "tick_power_effects">>,
   <<"tick_power_effects", "tick_block_decay">>}

\* The pairs <<a, b>> ordered by the .chain() calls of the two plugins
TickChains ==
  {<<"tick_acceleration", "accumulate_cost">>,
   <<"tick_status_effects", "tick_power_effects">>,
   <<"tick_power_effects", "tick_block_decay">>}

\* The orders in which the executor may run the tick systems
TickOrders ==
  {o \in [1..5 -> TickSystems] :
     /\ \A i, j \in 1..5 : i # j => o[i] # o[j]
     /\ \A c \in TickChains :
          \E i, j \in 1..5 : i < j /\ o[i] = c[1] /\ o[j] = c[2]}

\* The order in which the plugins register the systems
RegistrationOrder ==
  <<"tick_acceleration", "accumulate_cost", "tick_status_effects",
    "tick_power_effects", "tick_block_decay">>

RunTickSystem(name, delta, w) ==
  CASE name = "tick_acceleration" -> tick_acceleration_delta(delta, w)
    [] name = "accumulate_cost" -> accumulate_cost_delta(delta, w)
    [] name = "tick_status_effects" -> tick_status_effects_delta(delta, w)
    [] name = "tick_power_effects" -> tick_power_effects_delta(delta, w)
    [] name = "tick_block_decay" -> tick_block_decay_delta(delta, w)

RECURSIVE RunTickSystems(_, _, _, _)
RunTickSystems(order, i, delta, w) ==
  IF i > Len(order) THEN w
  ELSE RunTickSystems(order, i + 1, delta, RunTickSystem(order[i], delta, w))

\* GameplaySystems::Input, Deck and Effects run only in GameResult::Playing
PlayingSystems(flags, w) ==
  apply_status_effects(
    apply_card_effects(
      handle_play_card(
        handle_draw_cards(
          apply_pending_inputs(flags, w)))))

\* GameplaySystems::Health
HealthSystems(w) ==
  handle_game_over(
    check_death(
      handle_heal(
        handle_thorns_damage(
          handle_damage(
            handle_gain_thorns(
              handle_gain_block(w)))))))

\* One frame of the offline schedule in Screen::Gameplay: the tick systems in
\* the given order, then Input, Deck, Effects (when playing), then Health
OfflineFrame(order, flags, delta, game_result, w) ==
  Bind(RunTickSystems(order, 1, delta, [w EXCEPT !.events = <<>>]),
       LAMBDA w1 :
    HealthSystems(IF game_result = "Playing" THEN PlayingSystems(flags, w1)
                  ELSE w1))

(***************************************************************************)
(* State                                                                   *)
(***************************************************************************)
VARIABLES
  players,      \* the components of the two player entities
  msgs,         \* messages written and not yet read
  changed,      \* entities whose Health changed since check_death ran
  result,       \* State<GameResult>
  next_result,  \* NextState<GameResult>
  events,       \* what the last frame did, in order
  frame,        \* frames run so far
  replica       \* a second run of the same match, as a world record

vars == <<players, msgs, changed, result, next_result, events, frame, replica>>

World ==
  [players |-> players, msgs |-> msgs, changed |-> changed,
   next_result |-> next_result, events |-> events, commands |-> <<>>]

\* Bounds of the exploration
MaxFrames == 4
MatchSeeds == {U64FromInt(0), U64FromInt(7)}
Deltas == {1, 4}
InputWords == {0, 1, 2, 4, 6, 16}

INITIAL_HAND == 5      \* spawn_level_once draws 5 cards for each player
PLAYER_HP == 800       \* Health::new(100.0)
COST_RATE == 2         \* cost rate 1.0 per second

\* Decks a match may be started with
Decks ==
  {<<1, 100, 205, 116, 119, 303>>,
   <<1, 7, 9, 112, 211, 104>>}

\* spawn_level_once: both players spawned, an initial hand requested for each
SpawnLevel(match_seed, deck) ==
  [players |->
     [Local |-> PlayerBundle_new(match_seed, 0, COST_RATE, deck, PLAYER_HP),
      Opponent |-> PlayerBundle_new(match_seed, 1, COST_RATE, deck, PLAYER_HP)],
   msgs |-> [NoMessages EXCEPT
               !.draw = <<DrawCardsMessage("Local", INITIAL_HAND),
                          DrawCardsMessage("Opponent", INITIAL_HAND)>>],
   changed |-> Players,
   next_result |-> None,
   events |-> <<>>,
   commands |-> <<>>]

\* The match starts from world w in GameResult::Playing
StartWith(w) ==
  /\ players = w.players
  /\ msgs = w.msgs
  /\ changed = w.changed
  /\ next_result = w.next_result
  /\ events = w.events
  /\ result = "Playing"
  /\ frame = 0

Init ==
  \E match_seed \in MatchSeeds, deck \in Decks :
    \E w \in {SpawnLevel(match_seed, deck)} :
      /\ StartWith(w)
      /\ replica = w

\* StateTransition runs before Update: a pending NextState takes effect
CurrentResult == IF IsSome(next_result) THEN Unwrap(next_result) ELSE result

SetWorld(w) ==
  /\ players' = w.players
  /\ msgs' = w.msgs
  /\ changed' = w.changed
  /\ next_result' = w.next_result
  /\ events' = w.events

\* One frame of the offline match
Frame(flags, delta) ==
  /\ frame < MaxFrames
  /\ frame' = frame + 1
  /\ result' = CurrentResult
  /\ SetWorld(OfflineFrame(RegistrationOrder, flags, delta, CurrentResult,
                           [World EXCEPT !.next_result = None]))
  /\ UNCHANGED replica

Next == \E flags \in InputWords, delta \in Deltas : Frame(flags, delta)

Spec == Init /\ [][Next]_vars

(***************************************************************************)
(* Two runs of one match under the executor's freedom to order the tick    *)
(* systems.  The first run takes any admissible order in every frame, the  *)
(* second (replica) the registration order; two arbitrary runs agree when  *)
(* each of them agrees with the second.                                    *)
(***************************************************************************)
InitSched ==
  \E match_seed \in MatchSeeds, deck \in Decks :
    \E w \in {SpawnLevel(match_seed, deck)} :
      /\ StartWith(w)
      /\ replica = [w |-> w, result |-> "Playing", reordered |-> FALSE]

SchedFrame(flags, delta, order) ==
  /\ frame < MaxFrames
  /\ frame' = frame + 1
  /\ result' = CurrentResult
  /\ SetWorld(OfflineFrame(order, flags, delta, CurrentResult,
                           [World EXCEPT !.next_result = None]))
  /\ LET r == IF IsSome(replica.w.next_result)
              THEN Unwrap(replica.w.next_result) ELSE replica.result
     IN  replica' =
           [w |-> OfflineFrame(RegistrationOrder, flags, delta, r,
                               [replica.w EXCEPT !.next_result = None]),
            result |-> r,
            reordered |-> order # RegistrationOrder]

\* The flag words of the two-run exploration: nothing, slot 0, slot 1
SchedWords == {0, 2, 4}

NextSched ==
  \E flags \in SchedWords, delta \in Deltas, order \in TickOrders :
    SchedFrame(flags, delta, order)

SpecSched == InitSched /\ [][NextSched]_vars

PileCount(pl) ==
  Len(pl.deck.cards) + Len(pl.hand.cards) + Len(pl.discard.cards)

\* The events of a log with the given tag that concern player p
EventsOf(log, tag, p) ==
  {i \in 1..Len(log) : log[i].e = tag /\ log[i].player = p}

\* The plays of Power cards by player p in a log
PowerPlays(log, p) ==
  {i \in EventsOf(log, "CardPlayed", p) :
     /\ Registered(log[i].card_id)
     /\ Registry[log[i].card_id].card_type = "Power"}

PlayBits(flags) == {i \in 0..(MAX_HAND_SIZE - 1) : FlagSet(flags, i + 1)}

\* The flag words of the frame with two or more play bits set
MultiPlayInputs ==
  {i \in 1..Len(events) :
     events[i].e = "Input" /\ Cardinality(PlayBits(events[i].flags)) >= 2}

\* C5 as stated: an input word with two or more play bits set makes exactly
\* one card be played, the one in the lowest slot whose bit is set.
C5_ExactlyOnePlay ==
  \A i \in MultiPlayInputs :
    /\ Cardinality(EventsOf(events, "CardPlayed", "Local")) = 1
    /\ \A j \in EventsOf(events, "PlayRequested", "Local") :
         \A b \in PlayBits(events[i].flags) : events[j].hand_index <= b

\* C5 amended: such a word makes at most one card be played, and a card that
\* is played is the one in the lowest slot whose bit is set (no card is
\* played when that slot is empty or its card is not affordable).
C5_AtMostOnePlay ==
  \A i \in MultiPlayInputs :
    /\ Cardinality(EventsOf(events, "CardPlayed", "Local")) <= 1
    /\ Cardinality(EventsOf(events, "PlayRequested", "Local"))
         = Cardinality(EventsOf(events, "CardPlayed", "Local"))
    /\ \A j \in EventsOf(events, "PlayRequested", "Local") :
         \A b \in PlayBits(events[i].flags) : events[j].hand_index <= b

\* A word with two play bits set, and the card of its lowest slot played
C5_Witness ==
  /\ MultiPlayInputs # {}
  /\ EventsOf(events, "CardPlayed", "Local") # {}

(***************************************************************************)
(* Accelerate effects and the cost clock on their own: effect trees drawn  *)
(* from AccelEffects are resolved for the local player (apply_card_effect  *)
(* and the deferred commands of apply_card_effects), and the cost chain    *)
(* ticks.  events is the history of what was done; replica keeps the world *)
(* the history started from.                                               *)
(***************************************************************************)
MaxAccelSteps == 4
AccelRates == {2, 3}
AccelDeltas == {1, 4, 8}

\* +0.5/s for 4 s, +1.5/s for 4 s (Seeing Red), and a Combo holding two
\* Accelerate effects
AccelEffects ==
  {[k |-> "Accelerate", bonus_rate |-> 1, duration |-> 8],
   [k |-> "Accelerate", bonus_rate |-> 3, duration |-> 8],
   [k |-> "Combo",
    effects |-> <<[k |-> "Accelerate", bonus_rate |-> 1, duration |-> 8],
                  [k |-> "Accelerate", bonus_rate |-> 1, duration |-> 8]>>]}

\* Two players with empty decks and the given cost rate
BareWorld(cost_rate) ==
  [players |->
     [Local |-> PlayerBundle_new(U64FromInt(0), 0, cost_rate, <<>>, PLAYER_HP),
      Opponent |-> PlayerBundle_new(U64FromInt(0), 1, cost_rate, <<>>, PLAYER_HP)],
   msgs |-> NoMessages,
   changed |-> {},
   next_result |-> None,
   events |-> <<>>,
   commands |-> <<>>]

InitAccel ==
  \E cost_rate \in AccelRates :
    /\ StartWith(BareWorld(cost_rate))
    /\ replica = BareWorld(cost_rate)

\* apply_card_effects for one played card whose effect tree is effect
PlayEffect(effect) ==
  /\ frame < MaxAccelSteps
  /\ frame' = frame + 1
  /\ SetWorld(Flush(apply_card_effect(
                      effect, "Local", "Opponent",
                      players["Local"].strength.amount,
                      Emit(World, [e |-> "Effect", effect |-> effect]))))
  /\ UNCHANGED <<result, replica>>

\* The cost chain of one frame
CostTick(delta) ==
  /\ frame < MaxAccelSteps
  /\ frame' = frame + 1
  /\ SetWorld(accumulate_cost_delta(delta,
                tick_acceleration_delta(delta,
                  Emit(World, [e |-> "Tick", delta |-> delta]))))
  /\ UNCHANGED <<result, replica>>

NextAccel ==
  \/ \E effect \in AccelEffects : PlayEffect(effect)
  \/ \E delta \in AccelDeltas : CostTick(delta)

SpecAccel == InitAccel /\ [][NextAccel]_vars

\* The time ticked by the events of a log from position i on
RECURSIVE Elapsed(_, _)
Elapsed(log, i) ==
  IF i > Len(log) THEN 0 ELSE log[i].delta + Elapsed(log, i + 1)

\* The history is one Accelerate effect followed by ticks only
OneAccelerateThenTicks ==
  /\ events # <<>>
  /\ events[1].e = "Effect"
  /\ events[1].effect.k = "Accelerate"
  /\ \A i \in 2..Len(events) : events[i].e = "Tick"

\* C7: playing Accelerate{b, d} on a player with Cost.rate r and no
\* Acceleration sets the rate to r + b and attaches an Acceleration of bonus
\* b; it stays so while less than d has been ticked, and once the ticks total
\* at least d the rate is exactly r again and the Acceleration is absent.
C7_AccelerationLifecycle ==
  OneAccelerateThenTicks =>
    LET b == events[1].effect.bonus_rate
        d == events[1].effect.duration
        r == replica.players["Local"].cost.rate
        pl == players["Local"]
    IN  IF Elapsed(events, 2) >= d
        THEN pl.cost.rate = r /\ ~IsSome(pl.accel)
        ELSE /\ pl.cost.rate = r + b
             /\ IsSome(pl.accel)
             /\ Unwrap(pl.accel).bonus_rate = b
             /\ Unwrap(pl.accel).remaining = d - Elapsed(events, 2)

\* The case of the specification: +0.5 for 4 s on rate 1.0, 4 s ticked
C7_Witness ==
  /\ OneAccelerateThenTicks
  /\ events[1].effect.bonus_rate = 1
  /\ events[1].effect.duration = 8
  /\ replica.players["Local"].cost.rate = 2
  /\ Elapsed(events, 2) >= 8
  /\ players["Local"].cost.rate = 2

\* C8: after any sequence of Accelerate effects and ticks, Cost.rate is the
\* base rate plus the bonus of the attached Acceleration (zero when none is
\* attached).
C8_AccelerationNeverLeaks ==
  LET pl == players["Local"]
  IN  pl.cost.rate =
        replica.players["Local"].cost.rate
        + (IF IsSome(pl.accel) THEN Unwrap(pl.accel).bonus_rate ELSE 0)

(***************************************************************************)
(* The Health systems on their own: damage intents drawn from bounded sets *)
(* are written as effects write them and the Health chain runs; a frame    *)
(* without a new intent delivers what the last one left pending.  events   *)
(* is the history of the damage intents handled.                           *)
(***************************************************************************)
MaxDamageFrames == 2
DamageAmounts == {-8, 0, 400}
\* Kinds written by effects and powers; DamageKind::Thorns is written by
\* handle_thorns_damage only
IntentKinds == {"Attack", "Power"}
OpponentHealths == {800, 320}
BlockLevels == {0, 240}
ThornsLevels == {0, 80}

DamageWorld(opponent_hp, opponent_block, local_thorns, opponent_thorns) ==
  [BareWorld(COST_RATE) EXCEPT
     !.players["Opponent"].health = Health_new(opponent_hp),
     !.players["Opponent"].block.current = opponent_block,
     !.players["Local"].thorns.damage = local_thorns,
     !.players["Opponent"].thorns.damage = opponent_thorns]

InitDamage ==
  \E opponent_hp \in OpponentHealths, opponent_block \in BlockLevels,
     local_thorns \in ThornsLevels, opponent_thorns \in ThornsLevels :
    /\ StartWith(DamageWorld(opponent_hp, opponent_block, local_thorns,
                             opponent_thorns))
    /\ replica = DamageWorld(opponent_hp, opponent_block, local_thorns,
                             opponent_thorns)

\* A frame in which one damage intent was written before the Health chain
Hit(target, amount, source, kind) ==
  /\ frame < MaxDamageFrames
  /\ frame' = frame + 1
  /\ SetWorld(HealthSystems(
                Write([World EXCEPT !.next_result = None], "damage",
                      DamageMessage(target, amount, source, kind))))
  /\ UNCHANGED <<result, replica>>

\* A frame in which only pending intents are delivered
Settle ==
  /\ frame < MaxDamageFrames
  /\ msgs.damage # <<>>
  /\ frame' = frame + 1
  /\ SetWorld(HealthSystems([World EXCEPT !.next_result = None]))
  /\ UNCHANGED <<result, replica>>

NextDamage ==
  \/ \E target \in Players, amount \in DamageAmounts, kind \in IntentKinds,
        known \in BOOLEAN :
       Hit(target, amount,
           IF known THEN Some(opponent_entity(target)) ELSE None, kind)
  \/ Settle

SpecDamage == InitDamage /\ [][NextDamage]_vars

\* The damage intents handled so far, as positions of the history
DamageEvents == {i \in 1..Len(events) : events[i].e = "Damage"}

\* The Thorns-kind intents written and not yet handled
PendingReflections ==
  Cardinality({i \in 1..Len(msgs.damage) : msgs.damage[i].kind = "Thorns"})
  + Len(msgs.thorns_damage)

C10_DamagePipeline ==
  \A i \in DamageEvents :
    LET a == Max(events[i].amount, 0)
        absorbed == Min(a, events[i].block)
    IN  /\ events[i].block_after = events[i].block - absorbed
        /\ events[i].health_after =
             Max(0, events[i].health - (a - absorbed))

\* The case of the specification was handled: Health 100, Block 30, damage 50
C10_Witness ==
  \E i \in DamageEvents :
    /\ events[i].health = 800 /\ events[i].block = 240
    /\ events[i].amount = 400
    /\ events[i].block_after = 0 /\ events[i].health_after = 640

(***************************************************************************)
(* Draw requests on their own: the local player starts with an empty deck, *)
(* a discard pile and a hand drawn from bounded sets, with or without the  *)
(* Evolve power; a step either handles one draw request or adds a status   *)
(* card to the discard pile.  replica keeps the players before the step    *)
(* and the request; events is what the step did.                           *)
(***************************************************************************)
MaxDrawFrames == 3
DrawCounts == 0..4
\* A = Strike, B = Shrug It Off, C = Slimed (a Status card), Iron Wave
DrawDiscards == {<<>>, <<1>>, <<1, 100, 303>>, <<303, 1, 100, 7>>}
DrawHands == {<<>>, <<1, 1>>, <<1, 1, 1, 1, 1, 1, 1, 1>>}
\* EvolveEffect { draw_on_status: 1 } or no Evolve power
Evolves == {None, Some([draw_on_status |-> 1])}
StatusCards == {303}

DrawWorld(match_seed, discard, hand, evolve) ==
  [BareWorld(COST_RATE) EXCEPT
     !.players["Local"].deck =
        Deck_shuffle(Deck_new_with_seed(<<>>, seed_for_handle(match_seed, 0))),
     !.players["Local"].discard.cards = discard,
     !.players["Local"].hand.cards = hand,
     !.players["Local"].evolve = evolve]

InitDraw ==
  \E match_seed \in MatchSeeds, discard \in DrawDiscards, hand \in DrawHands,
     evolve \in Evolves :
    /\ StartWith(DrawWorld(match_seed, discard, hand, evolve))
    /\ replica = [pre |-> DrawWorld(match_seed, discard, hand, evolve).players,
                  requested |-> FALSE, count |-> 0]

\* handle_draw_cards on one DrawCardsMessage for the local player
RequestDraw(count) ==
  /\ frame < MaxDrawFrames
  /\ frame' = frame + 1
  /\ SetWorld(handle_draw_cards(
                Write([World EXCEPT !.events = <<>>], "draw",
                      DrawCardsMessage("Local", count))))
  /\ replica' = [pre |-> players, requested |-> TRUE, count |-> count]
  /\ UNCHANGED result

\* apply_status_effects on one AddStatus message for the local player
AddStatus(card_id) ==
  /\ frame < MaxDrawFrames
  /\ frame' = frame + 1
  /\ SetWorld(apply_status_effects(
                Write([World EXCEPT !.events = <<>>], "add_status",
                      CardPlayedMessage("Local", card_id))))
  /\ replica' = [pre |-> players, requested |-> FALSE, count |-> 0]
  /\ UNCHANGED result

NextDraw ==
  \/ \E count \in DrawCounts : RequestDraw(count)
  \/ \E card_id \in StatusCards : AddStatus(card_id)

SpecDraw == InitDraw /\ [][NextDraw]_vars

\* The number of occurrences of card c in the pile s
CountIn(s, c) == Cardinality({i \in 1..Len(s) : s[i] = c})

\* Piles s and t hold the same cards, whatever their order
SameCards(s, t) ==
  /\ Len(s) = Len(t)
  /\ \A i \in 1..Len(s) : CountIn(s, s[i]) = CountIn(t, s[i])

\* The cards the step drew, in the order they were drawn
DrawnCards ==
  LET drawn == SelectSeq(events, LAMBDA e : e.e = "Drawn")
  IN  [i \in 1..Len(drawn) |-> drawn[i].card_id]

\* The step handled a draw-N request, N >= 1, for a player whose deck was
\* empty, whose discard held k >= 1 cards and whose hand had room for the
\* min(N, k) cards
EmptyDeckDraw ==
  /\ replica.requested
  /\ replica.count >= 1
  /\ Len(replica.pre["Local"].deck.cards) = 0
  /\ Len(replica.pre["Local"].discard.cards) >= 1
  /\ Len(replica.pre["Local"].hand.cards)
       + Min(replica.count, Len(replica.pre["Local"].discard.cards))
       <= MAX_HAND_SIZE

\* What C9 says of the reshuffle and of the piles: exactly one reshuffle
\* notification, before the first card drawn, carrying all k discard cards;
\* the drawn cards are appended to the hand, the rest stays in the deck and
\* the discard is empty
ReshuffleThenDraw ==
  LET pre == replica.pre["Local"]
      post == players["Local"]
      reshuffles == EventsOf(events, "DeckReshuffled", "Local")
  IN  /\ Cardinality(reshuffles) = 1
      /\ \A i \in reshuffles :
           /\ SameCards(events[i].deck, pre.discard.cards)
           /\ \A j \in EventsOf(events, "Drawn", "Local") : i < j
      /\ post.hand.cards = pre.hand.cards \o DrawnCards
      /\ post.discard.cards = <<>>
      /\ SameCards(post.deck.cards \o DrawnCards, pre.discard.cards)

\* C9 as stated: such a request reshuffles once, before the first draw, and
\* moves min(N, k) cards to the hand.
C9_DrawUnderEmptyDeck ==
  EmptyDeckDraw =>
    /\ ReshuffleThenDraw
    /\ Len(DrawnCards)
         = Min(replica.count, Len(replica.pre["Local"].discard.cards))

\* C9 amended: the same for a player without the Evolve power; with Evolve
\* every Status card drawn extends the request, so that at least min(N, k)
\* and at most k cards move to the hand.
C9_DrawUnderEmptyDeckEvolve ==
  EmptyDeckDraw =>
    LET pre == replica.pre["Local"]
        k == Len(pre.discard.cards)
        statuses == Cardinality({i \in 1..Len(DrawnCards) :
                                   DrawnCards[i] \in StatusCards})
    IN  /\ ReshuffleThenDraw
        /\ ~IsSome(pre.evolve) => Len(DrawnCards) = Min(replica.count, k)
        /\ IsSome(pre.evolve) =>
             \/ Len(DrawnCards)
                  = Min(replica.count
                          + statuses * Unwrap(pre.evolve).draw_on_status, k)
             \/ Len(players["Local"].hand.cards) = MAX_HAND_SIZE

\* The case of the specification: Deck = [], Discard = [A, B, C], N = 3 put
\* the three cards in an empty hand and left deck and discard empty
C9_Witness ==
  /\ EmptyDeckDraw
  /\ replica.count = 3
  /\ replica.pre["Local"].discard.cards = <<1, 100, 303>>
  /\ replica.pre["Local"].hand.cards = <<>>
  /\ SameCards(players["Local"].hand.cards, <<1, 100, 303>>)
  /\ players["Local"].deck.cards = <<>>
  /\ players["Local"].discard.cards = <<>>

(***************************************************************************)
(* The rollback path (network/mod.rs).  An online world is a world and the *)
(* three accumulators PendingDamage, PendingDamageToSelf and PendingHeal.  *)
(* Player 0 is the local player, player 1 the remote one.                  *)
(***************************************************************************)
network_DRAW_COST == 8     \* const DRAW_COST: f32 = 2.0
network_DRAW_COUNT == 3
REMOTE_DAMAGE == 40        \* pending_damage_to_self.0 += 5.0

NoPending == [damage |-> 0, damage_to_self |-> 0, heal |-> 0]

\* The helper draw_cards, on the components of one player
RECURSIVE draw_cards(_, _)
draw_cards(pl, count) ==
  IF count <= 0 THEN pl
  ELSE
    LET recycle == Len(pl.deck.cards) = 0 /\ Len(pl.discard.cards) > 0
    IN
    Bind(IF recycle
         THEN [pl EXCEPT
                 !.deck = Deck_shuffle(Deck_add_cards(pl.deck,
                                                      pl.discard.cards)),
                 !.discard.cards = <<>>]
         ELSE pl, LAMBDA pl1 :
    Bind(Deck_draw(pl1.deck), LAMBDA drawn :
      draw_cards(IF drawn.card = NoCard THEN pl1
                 ELSE [pl1 EXCEPT !.deck = drawn.deck,
                                  !.hand.cards = Append(@, drawn.card)],
                 count - 1)))

\* The body of the local card loop for the first slot i whose bit is set
LocalPlay(ow, i) ==
  LET pl == ow.w.players["Local"]
  IN
  Bind(IF i < Len(pl.hand.cards) THEN CardRegistry_get(pl.hand.cards[i + 1])
       ELSE None, LAMBDA found :
      IF IsSome(found)
      THEN
        LET card_def == Unwrap(found)
            spend == Cost_try_spend(pl.cost, card_def.cost)
            removed == Hand_remove_card(pl.hand.cards, i)
            pl1 == [pl EXCEPT !.cost = spend.cost,
                              !.hand.cards = removed.cards,
                              !.discard.cards = Append(@, removed.card)]
        IN  IF ~spend.ok THEN ow
            ELSE CASE card_def.effect.k = "Damage" ->
                        [ow EXCEPT !.w.players["Local"] = pl1,
                                   !.pending.damage = @ + card_def.effect.amount]
                   [] card_def.effect.k = "Heal" ->
                        [ow EXCEPT !.w.players["Local"] = pl1,
                                   !.pending.heal = @ + card_def.effect.amount]
                   [] card_def.effect.k = "Draw" ->
                        [ow EXCEPT !.w.players["Local"] =
                                      draw_cards(pl1, card_def.effect.count)]
                   [] OTHER -> [ow EXCEPT !.w.players["Local"] = pl1]
      ELSE ow)

\* for i in 0..10 { if flags & (1 << (i + 1)) != 0 { ...; break } }
RECURSIVE LocalSlots(_, _, _)
LocalSlots(flags, ow, i) ==
  IF i >= 10 THEN ow
  ELSE IF FlagSet(flags, i + 1) THEN LocalPlay(ow, i)
  ELSE LocalSlots(flags, ow, i + 1)

\* process_ggrs_inputs: the local word draws and plays, the remote word with
\* any play bit set adds 5.0 to PendingDamageToSelf
process_ggrs_inputs(local, remote, ow) ==
  LET pl == ow.w.players["Local"]
      spend == Cost_try_spend(pl.cost, network_DRAW_COST)
      ow1 == IF FlagSet(local, 0) /\ spend.ok
             THEN [ow EXCEPT !.w.players["Local"] =
                     draw_cards([pl EXCEPT !.cost = spend.cost],
                                network_DRAW_COUNT)]
             ELSE ow
  IN  Bind(LocalSlots(local, ow1, 0), LAMBDA ow2 :
        IF \E i \in 0..9 : FlagSet(remote, i + 1)
        THEN [ow2 EXCEPT !.pending.damage_to_self = @ + REMOTE_DAMAGE]
        ELSE ow2)

apply_damage_to_opponent(ow) ==
  IF ow.pending.damage > 0
  THEN [ow EXCEPT !.w.players["Opponent"].health =
                     Health_take_damage(@, ow.pending.damage),
                  !.w.changed = @ \cup {"Opponent"},
                  !.pending.damage = 0]
  ELSE ow

apply_damage_to_self(ow) ==
  IF ow.pending.damage_to_self > 0
  THEN [ow EXCEPT !.w.players["Local"].health =
                     Health_take_damage(@, ow.pending.damage_to_self),
                  !.w.changed = @ \cup {"Local"},
                  !.pending.damage_to_self = 0]
  ELSE ow

apply_heal_to_player(ow) ==
  IF ow.pending.heal > 0
  THEN [ow EXCEPT !.w.players["Local"].health =
                     Health_heal(@, ow.pending.heal),
                  !.w.changed = @ \cup {"Local"},
                  !.pending.heal = 0]
  ELSE ow

check_game_over(ow) ==
  IF ow.w.players["Local"].health.current <= 0
  THEN [ow EXCEPT !.w.next_result = Some("Defeat")]
  ELSE IF ow.w.players["Opponent"].health.current <= 0
  THEN [ow EXCEPT !.w.next_result = Some("Victory")]
  ELSE ow

\* The chain registered by network::plugin
NetworkChain(local, remote, ow) ==
  check_game_over(
    apply_heal_to_player(
      apply_damage_to_self(
        apply_damage_to_opponent(
          process_ggrs_inputs(local, remote, ow)))))

\* The sets of GgrsSchedule, chained by game::plugin; no system is in
\* GameplaySystems::Input when online
GameSets == <<"Tick", "Deck", "Effects", "Health">>

RunSet(name, local, remote, delta, game_result, ow) ==
  CASE name = "Network" -> NetworkChain(local, remote, ow)
    [] name = "Tick" ->
         [ow EXCEPT !.w = RunTickSystems(RegistrationOrder, 1, delta, @)]
    [] name = "Deck" ->
         IF game_result = "Playing"
         THEN [ow EXCEPT !.w = handle_play_card(handle_draw_cards(@))]
         ELSE ow
    [] name = "Effects" ->
         IF game_result = "Playing"
         THEN [ow EXCEPT !.w = apply_status_effects(apply_card_effects(@))]
         ELSE ow
    [] name = "Health" -> [ow EXCEPT !.w = HealthSystems(@)]

RECURSIVE RunSets(_, _, _, _, _, _)
RunSets(names, local, remote, delta, game_result, ow) ==
  IF names = <<>> THEN ow
  ELSE RunSets(Tail(names), local, remote, delta, game_result,
               RunSet(Head(names), local, remote, delta, game_result, ow))

\* One frame of GgrsSchedule.  The chain of network::plugin is not ordered
\* against the sets: it runs after the first slot of them.
OnlineFrame(slot, local, remote, delta, game_result, ow) ==
  RunSets(SubSeq(GameSets, 1, slot) \o <<"Network">>
            \o SubSeq(GameSets, slot + 1, Len(GameSets)),
          local, remote, delta, game_result,
          [ow EXCEPT !.w.events = <<>>])

(***************************************************************************)
(* The two paths side by side: the same match is run by the offline frame  *)
(* (the variables) and by the rollback frame with an idle remote player    *)
(* (replica), on the same local flag words and deltas.                     *)
(***************************************************************************)
MaxPathFrames == 3
PathWords == {0, 1, 2, 4}
NetworkSlots == {0, 2, 4}

InitPaths ==
  \E match_seed \in MatchSeeds, deck \in Decks :
    \E w \in {SpawnLevel(match_seed, deck)} :
      /\ StartWith(w)
      /\ replica = [w |-> w, pending |-> NoPending, result |-> "Playing"]

\* State<GameResult> of the replica at the start of its next frame
ReplicaResult(r) ==
  IF IsSome(r.w.next_result) THEN Unwrap(r.w.next_result) ELSE r.result

\* One frame of GgrsSchedule for the run r, after the state transition
AdvanceReplica(r, slot, local, remote, delta) ==
  Bind(OnlineFrame(slot, local, remote, delta, ReplicaResult(r),
                   [w |-> [r.w EXCEPT !.next_result = None],
                    pending |-> r.pending]), LAMBDA ow :
    [w |-> ow.w, pending |-> ow.pending, result |-> ReplicaResult(r)])

PathsFrame(flags, delta, slot) ==
  /\ frame < MaxPathFrames
  /\ frame' = frame + 1
  /\ result' = CurrentResult
  /\ SetWorld(OfflineFrame(RegistrationOrder, flags, delta, CurrentResult,
                           [World EXCEPT !.next_result = None]))
  /\ replica' = AdvanceReplica(replica, slot, flags, 0, delta)

NextPaths ==
  \E flags \in PathWords, delta \in Deltas, slot \in NetworkSlots :
    PathsFrame(flags, delta, slot)

SpecPaths == InitPaths /\ [][NextPaths]_vars

\* C4: after every tick the offline path and the rollback path, fed the same
\* flag words and deltas from the same player state, hold the same Cost,
\* Hand, Deck, DiscardPile and Health.
C4_OfflineRollbackEquivalence ==
  \A p \in Players :
    /\ players[p].cost = replica.w.players[p].cost
    /\ players[p].hand = replica.w.players[p].hand
    /\ players[p].deck = replica.w.players[p].deck
    /\ players[p].discard = replica.w.players[p].discard
    /\ players[p].health = replica.w.players[p].health

(***************************************************************************)
(* Rollback.  The variables are the run of the local peer: a frame is run  *)
(* either with the remote word already known or with the word the session  *)
(* predicts (the last one received); when the word of a predicted frame    *)
(* arrives and differs, the snapshot taken before that frame is restored   *)
(* and the frame is run again.  Only the components registered with        *)
(* rollback_component_with_clone are in the snapshot.  replica.straight is *)
(* the same match run once on the words the players really sent.           *)
(***************************************************************************)
MaxOnlineFrames == 2
OnlineWords == {0, 1, 2}
RemoteWords == {0, 2}
\* Frames already played when the exploration starts (the initial hands are
\* drawn in the first), the remote player playing a card in each of them
WarmUps == {1, 19}

\* The snapshot restored into the players: Health, Cost, Hand, Deck and
\* DiscardPile, nothing else
RestorePlayer(pl, saved) ==
  [pl EXCEPT !.health = saved.health, !.cost = saved.cost,
             !.hand = saved.hand, !.deck = saved.deck,
             !.discard = saved.discard]

Restore(w, snapshot) ==
  [w EXCEPT !.players["Local"] = RestorePlayer(@, snapshot["Local"]),
            !.players["Opponent"] = RestorePlayer(@, snapshot["Opponent"]),
            !.changed = Players]

\* n frames in which the local player idles and the remote one plays
RECURSIVE WarmUp(_, _)
WarmUp(r, n) ==
  IF n = 0 THEN r
  ELSE Bind(AdvanceReplica(r, 0, 0, 2, 1), LAMBDA next :
         IF IsSome(next.w.next_result) THEN next ELSE WarmUp(next, n - 1))

OnlineStart(match_seed, deck, n) ==
  WarmUp([w |-> SpawnLevel(match_seed, deck), pending |-> NoPending,
          result |-> "Playing"], n)

InitRollback ==
  \E match_seed \in MatchSeeds, deck \in Decks, n \in WarmUps :
    \E start \in {OnlineStart(match_seed, deck, n)} :
      /\ players = start.w.players
      /\ msgs = start.w.msgs
      /\ changed = start.w.changed
      /\ next_result = start.w.next_result
      /\ events = <<>>
      /\ result = start.result
      /\ frame = 0
      /\ replica = [pending |-> start.pending,
                    straight |-> [start EXCEPT !.w.events = <<>>],
                    snapshot |-> start.w.players,
                    speculative |-> None,
                    last_remote |-> 2]

\* The run of the local peer as an online world, after the state transition
MainOnline ==
  [w |-> [World EXCEPT !.next_result = None], pending |-> replica.pending,
   result |-> CurrentResult]

\* A frame whose remote word is known when it is run
ConfirmedFrame(local, remote, delta, slot) ==
  /\ frame < MaxOnlineFrames
  /\ ~IsSome(replica.speculative)
  /\ frame' = frame + 1
  /\ result' = CurrentResult
  /\ \E next \in {AdvanceReplica(MainOnline, slot, local, remote, delta)} :
       /\ SetWorld(next.w)
       /\ replica' =
            [replica EXCEPT
               !.pending = next.pending,
               !.straight = AdvanceReplica(@, slot, local, remote, delta),
               !.last_remote = remote]

\* A frame run on the predicted remote word; the snapshot is saved first
PredictedFrame(local, delta, slot) ==
  /\ frame < MaxOnlineFrames
  /\ ~IsSome(replica.speculative)
  /\ frame' = frame + 1
  /\ result' = CurrentResult
  /\ \E next \in {AdvanceReplica(MainOnline, slot, local, replica.last_remote,
                                 delta)} :
       /\ SetWorld(next.w)
       /\ replica' =
            [replica EXCEPT
               !.pending = next.pending,
               !.snapshot = players,
               !.speculative =
                  Some([local |-> local, remote |-> replica.last_remote,
                        delta |-> delta, slot |-> slot])]

\* The remote word of the predicted frame arrives: when it is the predicted
\* one nothing is done, otherwise the snapshot is loaded and the frame is run
\* again on the word received
ResolveFrame(actual) ==
  /\ IsSome(replica.speculative)
  /\ result' = CurrentResult
  /\ frame' = frame
  /\ LET spec == Unwrap(replica.speculative)
         rolled == [MainOnline EXCEPT !.w = Restore(@, replica.snapshot)]
     IN  \E again \in {AdvanceReplica(rolled, spec.slot, spec.local, actual,
                                      spec.delta)} :
           /\ IF actual = spec.remote
              THEN SetWorld(MainOnline.w)
              ELSE SetWorld(again.w)
           /\ replica' =
                [replica EXCEPT
                   !.pending = IF actual = spec.remote THEN @
                               ELSE again.pending,
                   !.straight = AdvanceReplica(@, spec.slot, spec.local,
                                               actual, spec.delta),
                   !.speculative = None,
                   !.last_remote = actual]

NextRollback ==
  \/ \E local \in OnlineWords, remote \in RemoteWords, delta \in Deltas,
        slot \in NetworkSlots : ConfirmedFrame(local, remote, delta, slot)
  \/ \E local \in OnlineWords, delta \in Deltas, slot \in NetworkSlots :
       PredictedFrame(local, delta, slot)
  \/ \E actual \in RemoteWords : ResolveFrame(actual)

SpecRollback == InitRollback /\ [][NextRollback]_vars

\* C3: once every predicted frame has been resolved, the run that restored
\* snapshots and executed frames again is in exactly the state of the run
\* that executed every frame once: the snapshot holds every
\* gameplay-relevant mutable value.
C3_RollbackCompleteness ==
  ~IsSome(replica.speculative) =>
    /\ players = replica.straight.w.players
    /\ msgs = replica.straight.w.msgs
    /\ replica.pending = replica.straight.pending
    /\ CurrentResult = ReplicaResult(replica.straight)

(***************************************************************************)
(* Attack damage on its own: Damage effects resolved for a source and a    *)
(* target whose Strength, Weak and Vulnerable are drawn at the start.      *)
(* Bases are whole points and Strength whole units, so every product is a  *)
(* whole number of eighths.                                                *)
(***************************************************************************)
MaxStrikes == 2
AttackBases == {0, 48, 800}
AttackStrengths == {0, 2, -4}       \* 0.0, 1.0, -2.0 in halves
StatusDurations == {0, 6}           \* inactive, 3 seconds

InitAttack ==
  \E strength \in AttackStrengths, weak \in StatusDurations,
     vulnerable \in StatusDurations :
    \E w \in {[BareWorld(COST_RATE) EXCEPT
                  !.players["Local"].strength.amount = strength,
                  !.players["Local"].weak.duration = weak,
                  !.players["Opponent"].vulnerable.duration = vulnerable]} :
      /\ StartWith(w)
      /\ replica = w

\* apply_card_effect for CardEffect::Damage(base) played by the local player
Strike(base) ==
  /\ frame < MaxStrikes
  /\ frame' = frame + 1
  /\ SetWorld(Emit(apply_card_effect([k |-> "Damage", amount |-> base],
                                     "Local", "Opponent",
                                     players["Local"].strength.amount, World),
                   [e |-> "Attack", base |-> base]))
  /\ UNCHANGED <<result, replica>>

NextAttack == \E base \in AttackBases : Strike(base)

SpecAttack == InitAttack /\ [][NextAttack]_vars

\* Eight times the damage the formula of the rule gives, in eighths
ExpectedTimes8(base, strength, weak, vulnerable) ==
  Max(0, (base + 40 * strength)
           * (IF weak > 0 THEN 3 ELSE 4)
           * (IF vulnerable > 0 THEN 3 ELSE 2))

\* C11: the damage an attack writes is max(0, (base + 10 * Strength of the
\* source) * (3/4 when the source's Weak duration > 0) * (3/2 when the
\* target's Vulnerable duration > 0)); a base of 100 with Strength 0 gives
\* 75 under Weak only, 150 under Vulnerable only and 112.5 under both.
C11_AttackMultipliers ==
  /\ Len(msgs.damage) = Len(events)
  /\ \A i \in 1..Len(events) :
       /\ msgs.damage[i].target = "Opponent"
       /\ msgs.damage[i].kind = "Attack"
       /\ 8 * msgs.damage[i].amount =
            ExpectedTimes8(events[i].base, players["Local"].strength.amount,
                           players["Local"].weak.duration,
                           players["Opponent"].vulnerable.duration)
       /\ (events[i].base = 800 /\ players["Local"].strength.amount = 0) =>
            msgs.damage[i].amount =
              CASE players["Local"].weak.duration > 0
                   /\ players["Opponent"].vulnerable.duration > 0 -> 900
                [] players["Local"].weak.duration > 0 -> 600
                [] players["Opponent"].vulnerable.duration > 0 -> 1200
                [] OTHER -> 800

\* A base of 100 struck by a Weak source at a Vulnerable target: 112.5
C11_Witness ==
  /\ players["Local"].weak.duration > 0
  /\ players["Opponent"].vulnerable.duration > 0
  /\ players["Local"].strength.amount = 0
  /\ \E i \in 1..Len(events) :
       events[i].base = 800 /\ msgs.damage[i].amount = 900

(***************************************************************************)
(* The end of a match: offline frames from a world in which a death is     *)
(* near.  The local player holds Strike and Hemokinesis with Cost to play  *)
(* them, may have Combust attached, and the opponent may have Thorns.      *)
(***************************************************************************)
MaxEndFrames == 3
EndLocalHealths == {40, 160}        \* 5.0, 20.0
EndOpponentHealths == {200, 1200}   \* 25.0, 150.0
EndThorns == {0, 80}                \* none, 10.0
EndCombusts == {None, Some(CombustEffect_new(40, 200))}
EndWords == {0, 2, 4}

EndWorld(local_hp, opponent_hp, thorns, combust) ==
  [BareWorld(COST_RATE) EXCEPT
     !.players["Local"].health.current = local_hp,
     !.players["Local"].hand.cards = <<1, 16>>,
     !.players["Local"].cost.current = 16,
     !.players["Local"].combust = combust,
     !.players["Opponent"].health.current = opponent_hp,
     !.players["Opponent"].thorns.damage = thorns]

InitEnd ==
  \E local_hp \in EndLocalHealths, opponent_hp \in EndOpponentHealths,
     thorns \in EndThorns, combust \in EndCombusts :
    \E w \in {EndWorld(local_hp, opponent_hp, thorns, combust)} :
      /\ StartWith(w)
      /\ replica = w

\* One frame of the offline match; replica keeps the players the frame
\* started from
EndFrame(flags, delta) ==
  /\ frame < MaxEndFrames
  /\ frame' = frame + 1
  /\ result' = CurrentResult
  /\ SetWorld(OfflineFrame(RegistrationOrder, flags, delta, CurrentResult,
                           [World EXCEPT !.next_result = None]))
  /\ replica' = [replica EXCEPT !.players = players]

NextEnd == \E flags \in EndWords, delta \in Deltas : EndFrame(flags, delta)

SpecEnd == InitEnd /\ [][NextEnd]_vars

C13_NoSimulationAfterEnd ==
  [][result' # "Playing" => players' = players]_vars

\* The Death notifications of a frame that name entity p
DeathsOf(log, p) ==
  {i \in 1..Len(log) : log[i].e = "Death" /\ log[i].entity = p}

\* C14: in the frame in which the Health of a player changes to a value <= 0
\* a death notification for that player is emitted and it sets GameResult
\* to Defeat when the player is the local one and to Victory when it is the
\* opponent; GameResult does not leave Playing while both players have
\* Health > 0.
C14_DeathMapping ==
  [][/\ \A p \in Players :
          (players[p].health.current > 0 /\ players'[p].health.current <= 0)
            => /\ DeathsOf(events', p) # {}
               /\ next_result' =
                    Some(IF p = "Local" THEN "Defeat" ELSE "Victory")
     /\ (\A p \in Players : players'[p].health.current > 0)
          => (next_result' = None /\ result' = "Playing")]_vars

(***************************************************************************)
(* Spending Cost: Cost::try_spend on its own and through the input         *)
(* reconciliation, from several balances, hands and with Corruption        *)
(***************************************************************************)
MaxSpendSteps == 3
SpendBalances == {0, 3, 4, 8, 12, 20}
SpendAmounts == {4, 40}
SpendHands == {<<1, 100>>, <<100, 111, 1>>, <<>>}
SpendCorruptions == {None, Some([marker |-> TRUE])}
SpendWords == {1, 3, 6, 8}

InitSpend ==
  \E balance \in SpendBalances, cards \in SpendHands,
     corruption \in SpendCorruptions :
    \E w \in {[BareWorld(COST_RATE) EXCEPT
                 !.players["Local"].cost.current = balance,
                 !.players["Local"].hand.cards = cards,
                 !.players["Local"].corruption = corruption]} :
      /\ StartWith(w)
      /\ replica = w

\* cost.try_spend(amount) on the local player
TrySpend(amount) ==
  /\ frame < MaxSpendSteps
  /\ frame' = frame + 1
  /\ \E spend \in {Cost_try_spend(players["Local"].cost, amount)} :
       SetWorld(Emit([World EXCEPT !.players["Local"].cost = spend.cost],
                     [e |-> "TrySpend", amount |-> amount,
                      ok |-> spend.ok]))
  /\ UNCHANGED <<result, replica>>

\* apply_pending_inputs for one input word
Reconcile(flags) ==
  /\ frame < MaxSpendSteps
  /\ frame' = frame + 1
  /\ SetWorld(apply_pending_inputs(flags, World))
  /\ UNCHANGED <<result, replica>>

\* accumulate_cost for one frame
Earn(delta) ==
  /\ frame < MaxSpendSteps
  /\ frame' = frame + 1
  /\ SetWorld(Emit(accumulate_cost_delta(delta, World),
                   [e |-> "Tick", delta |-> delta]))
  /\ UNCHANGED <<result, replica>>

NextSpend ==
  \/ \E amount \in SpendAmounts : TrySpend(amount)
  \/ \E flags \in SpendWords : Reconcile(flags)
  \/ \E delta \in Deltas : Earn(delta)

SpecSpend == InitSpend /\ [][NextSpend]_vars

\* The cost the reconciler asks for the card in a hand slot
EffectiveCost(pl, hand_index) ==
  LET card_def == Unwrap(CardRegistry_get(pl.hand.cards[hand_index + 1]))
  IN  IF IsSome(pl.corruption) /\ card_def.card_type = "Skill"
      THEN 0 ELSE card_def.cost

\* The cost of the play messages plays[i..]
RECURSIVE CostOfPlays(_, _, _)
CostOfPlays(pl, plays, i) ==
  IF i > Len(plays) THEN 0
  ELSE EffectiveCost(pl, plays[i].hand_index) + CostOfPlays(pl, plays, i + 1)

LastEventIs(kind) ==
  /\ Len(events') = Len(events) + 1
  /\ events'[Len(events')].e = kind

\* C15: try_spend refuses a spend the balance cannot pay and leaves the
\* balance alone, otherwise it takes exactly the amount; the reconciler
\* writes a draw or play message only together with the deduction of its
\* full cost (DRAW_COST, the effective cost of the card), a refused draw
\* writes nothing, and the balance is never negative.
C15_NoPartialSpend ==
  [][LET before == players["Local"].cost.current
         after == players'["Local"].cost.current
         draws == Len(msgs'.draw) - Len(msgs.draw)
         plays == SubSeq(msgs'.play, Len(msgs.play) + 1, Len(msgs'.play))
     IN  /\ after >= 0
         /\ LastEventIs("TrySpend") =>
              LET ev == events'[Len(events')]
              IN  /\ draws = 0 /\ plays = <<>>
                  /\ IF before < ev.amount
                     THEN ~ev.ok /\ players'["Local"].cost = players["Local"].cost
                     ELSE ev.ok /\ after = before - ev.amount
         /\ ~(LastEventIs("TrySpend") \/ LastEventIs("Tick")) =>
              /\ draws \in {0, 1}
              /\ before < DRAW_COST => draws = 0
              /\ \A i \in 1..Len(plays) :
                   /\ plays[i].player = "Local"
                   /\ plays[i].hand_index < Len(players["Local"].hand.cards)
              /\ before - after =
                   draws * DRAW_COST + CostOfPlays(players["Local"], plays, 1)
              /\ players'["Local"].cost.rate = players["Local"].cost.rate]_vars

\* A spend was refused, and one input word paid for a draw and a play
C15_Witness ==
  /\ \E i \in 1..Len(events) :
       events[i].e = "TrySpend" /\ ~events[i].ok /\ events[i].amount = 40
  /\ \E i \in 1..Len(events) : events[i].e = "Input" /\ events[i].flags = 3
  /\ Len(msgs.draw) = 1
  /\ Len(msgs.play) = 1
  /\ players["Local"].cost.current = 0

(***************************************************************************)
(* Play requests that cannot be served: the Input, Deck and Effects        *)
(* systems of one frame, on hands that are short or hold CardId::Unknown   *)
(***************************************************************************)
MaxPlaySteps == 3
UnknownCard == 0        \* CardId::Unknown, which no module registers
PlayHands == {<<UnknownCard, 1>>, <<1, 100>>, <<>>}
PlayWords == {2, 3, 4, 6, 16, 17}

InitPlay ==
  \E cards \in PlayHands :
    \E w \in {[BareWorld(COST_RATE) EXCEPT
                 !.players["Local"].cost.current = 16,
                 !.players["Local"].hand.cards = cards,
                 !.players["Local"].deck.cards = <<7, 9, 104>>,
                 !.players["Local"].discard.cards = <<2>>]} :
      /\ StartWith(w)
      /\ replica = w

\* GameplaySystems::Input, Deck and Effects of one frame
PlayWord(flags) ==
  /\ frame < MaxPlaySteps
  /\ frame' = frame + 1
  /\ SetWorld(PlayingSystems(flags, World))
  /\ UNCHANGED <<result, replica>>

NextPlay == \E flags \in PlayWords : PlayWord(flags)

SpecPlay == InitPlay /\ [][NextPlay]_vars

\* The lowest hand slot whose play bit is set in the word, or NoCard
RECURSIVE ServedSlot(_, _)
ServedSlot(flags, i) ==
  IF i >= MAX_HAND_SIZE THEN NoCard
  ELSE IF FlagSet(flags, i + 1) THEN i
  ELSE ServedSlot(flags, i + 1)

\* The play bit of slot i cannot be served from this hand
Impossible(hand, i) ==
  \/ i >= Len(hand.cards)
  \/ ~Registered(hand.cards[i + 1])

NewEvents == SubSeq(events', Len(events) + 1, Len(events'))

\* C16: when the play bit of an input word names a slot beyond the hand or
\* a card the registry does not hold, the frame writes no play request and
\* plays no card, and it does what the same frame does without the play
\* bits: with no draw bit and no draw pending from an earlier card, every
\* component of both players and every message queue is left as it was.
C16_ImpossiblePlayIsNoOp ==
  [][(/\ NewEvents # <<>>
      /\ NewEvents[1].e = "Input"
      /\ ServedSlot(NewEvents[1].flags, 0) # NoCard
      /\ Impossible(players["Local"].hand,
                    ServedSlot(NewEvents[1].flags, 0)))
       => /\ \A i \in 1..Len(NewEvents) :
               NewEvents[i].e \notin {"PlayRequested", "CardPlayed"}
          /\ msgs'.play = msgs.play
          /\ msgs'.card_played = msgs.card_played
          /\ \E w \in {PlayingSystems(NewEvents[1].flags % 2, World)} :
               players' = w.players /\ msgs' = w.msgs
          /\ (~FlagSet(NewEvents[1].flags, 0) /\ msgs.draw = <<>>)
               => /\ players' = players
                  /\ msgs' = msgs
                  /\ Len(NewEvents) = 1]_vars

\* A hand of Unknown and Strike was asked for slot 0 (Unknown), for slot 3
\* (beyond the hand) and for slots 0 and 1 together, and nothing moved
C16_Witness ==
  /\ frame = 3
  /\ replica.players["Local"].hand.cards = <<UnknownCard, 1>>
  /\ Len(events) = 3
  /\ {events[i].flags : i \in 1..Len(events)} = {2, 6, 16}
  /\ players = replica.players
  /\ msgs = replica.msgs

(***************************************************************************)
(* Draw requests on piles that are empty or nearly empty: the Input, Deck  *)
(* and Effects systems of one frame                                        *)
(***************************************************************************)
MaxDryFrames == 3
DryDecks == {<<>>, <<7>>}
DryDiscards == {<<>>, <<9>>}
DryHands == {<<>>, <<1>>}
DryBalances == {4, 8, 16}
DryWords == {1, 2, 3}

InitDry ==
  \E deck \in DryDecks, discard \in DryDiscards, hand \in DryHands,
     balance \in DryBalances :
    \E w \in {[BareWorld(COST_RATE) EXCEPT
                 !.players["Local"].deck.cards = deck,
                 !.players["Local"].discard.cards = discard,
                 !.players["Local"].hand.cards = hand,
                 !.players["Local"].cost.current = balance]} :
      /\ StartWith(w)
      /\ replica = w

\* GameplaySystems::Input, Deck and Effects of one frame
DryFrame(flags) ==
  /\ frame < MaxDryFrames
  /\ frame' = frame + 1
  /\ SetWorld(PlayingSystems(flags, World))
  /\ UNCHANGED <<result, replica>>

NextDry == \E flags \in DryWords : DryFrame(flags)

SpecDry == InitDry /\ [][NextDry]_vars

\* The frame got the draw request alone (bit 0) and no draw was pending
DrawRequestAlone ==
  /\ NewEvents # <<>>
  /\ NewEvents[1].e = "Input"
  /\ NewEvents[1].flags = INPUT_DRAW
  /\ msgs.draw = <<>>

\* C17: a draw request on an empty Deck and an empty DiscardPile changes
\* neither Hand, Deck, DiscardPile nor Cost and announces no reshuffle; a
\* paid request on piles that hold fewer than DRAW_COUNT cards draws all of
\* them and stops.
C17_EmptyDrawIsNoOp ==
  [][DrawRequestAlone =>
       LET pl == players["Local"]
           after == players'["Local"]
           available == Len(pl.deck.cards) + Len(pl.discard.cards)
       IN  /\ available = 0 =>
                /\ after.hand = pl.hand
                /\ after.deck = pl.deck
                /\ after.discard = pl.discard
                /\ after.cost = pl.cost
                /\ \A i \in 1..Len(NewEvents) :
                     NewEvents[i].e # "DeckReshuffled"
           /\ (available < DRAW_COUNT /\ pl.cost.current >= DRAW_COST) =>
                /\ Len(after.hand.cards) = Len(pl.hand.cards) + available
                /\ after.deck.cards = <<>>
                /\ after.discard.cards = <<>>]_vars

(***************************************************************************)
(* Draws into a hand that is nearly full, on both paths: the variables are *)
(* the offline run, replica is the rollback run of the same match          *)
(***************************************************************************)
MaxHandFrames == 2
FullHands == {<<1, 1, 2, 2, 100, 100, 7, 9>>,
              <<1, 1, 2, 2, 100, 100, 7, 9, 104>>,
              <<1, 1, 2, 2, 100, 100, 7, 9, 104, 104>>}
FullDecks == {<<1, 2, 100, 7>>, <<9>>}
FullBalances == {8, 16}
FullWords == {0, 1, 2}

InitHand ==
  \E hand \in FullHands, deck \in FullDecks, balance \in FullBalances :
    \E w \in {[BareWorld(COST_RATE) EXCEPT
                 !.players["Local"].hand.cards = hand,
                 !.players["Local"].deck.cards = deck,
                 !.players["Local"].discard.cards = <<2, 104>>,
                 !.players["Local"].cost.current = balance]} :
      /\ StartWith(w)
      /\ replica = [w |-> w, pending |-> NoPending, result |-> "Playing"]

\* One frame of the Update schedule offline and one frame of GgrsSchedule
\* online, on the same word
HandFrame(flags, delta, slot) ==
  /\ frame < MaxHandFrames
  /\ frame' = frame + 1
  /\ result' = CurrentResult
  /\ SetWorld(OfflineFrame(RegistrationOrder, flags, delta, CurrentResult,
                           [World EXCEPT !.next_result = None]))
  /\ replica' = AdvanceReplica(replica, slot, flags, 0, delta)

NextHand ==
  \E flags \in FullWords, delta \in Deltas, slot \in NetworkSlots :
    HandFrame(flags, delta, slot)

SpecHand == InitHand /\ [][NextHand]_vars

\* C18: no Hand ever holds more than MAX_HAND_SIZE cards, neither on the
\* offline path nor on the rollback path.
C18_HandCeiling ==
  \A p \in Players :
    /\ Len(players[p].hand.cards) <= MAX_HAND_SIZE
    /\ Len(replica.w.players[p].hand.cards) <= MAX_HAND_SIZE

(***************************************************************************)
(* The draw loop under Evolve: draw requests on piles of Status cards,     *)
(* with Evolve bonuses that chain                                          *)
(***************************************************************************)
MaxEvolveSteps == 2
EvolveBonuses == {0, 1, 3}
EvolveCounts == {1, 3}
\* Slimed and Dazed are Status cards, Strike is not
EvolveDecks == {<<303, 303, 303, 303, 303, 303, 303, 303, 303, 303, 303, 303>>,
                <<303, 1, 300, 1, 1>>,
                <<>>}
EvolveDiscards == {<<>>, <<303, 300, 303>>}
EvolveHands == {<<>>, <<1, 1, 1, 1, 1, 1, 1>>}

InitEvolve ==
  \E draw \in EvolveBonuses, deck \in EvolveDecks, discard \in EvolveDiscards,
     hand \in EvolveHands :
    \E w \in {[BareWorld(COST_RATE) EXCEPT
                 !.players["Local"].deck.cards = deck,
                 !.players["Local"].discard.cards = discard,
                 !.players["Local"].hand.cards = hand,
                 !.players["Local"].evolve =
                    IF draw = 0 THEN None
                    ELSE Some([draw_on_status |-> draw])]} :
      /\ StartWith(w)
      /\ replica = [pre |-> w.players, requested |-> FALSE, count |-> 0]

\* handle_draw_cards on one DrawCardsMessage for the local player
EvolveDraw(count) ==
  /\ frame < MaxEvolveSteps
  /\ frame' = frame + 1
  /\ SetWorld(handle_draw_cards(
                Write([World EXCEPT !.events = <<>>], "draw",
                      DrawCardsMessage("Local", count))))
  /\ replica' = [pre |-> players, requested |-> TRUE, count |-> count]
  /\ UNCHANGED result

NextEvolve == \E count \in EvolveCounts : EvolveDraw(count)

SpecEvolve == InitEvolve /\ [][NextEvolve]_vars

\* The Status cards among the cards of a sequence
StatusesIn(cards) ==
  Cardinality({i \in 1..Len(cards) :
                 /\ Registered(cards[i])
                 /\ Unwrap(CardRegistry_get(cards[i])).card_type = "Status"})

\* C19: the draw loop of handle_draw_cards ends, after at most
\* MAX_HAND_SIZE successful draws: every draw adds one card to the Hand,
\* the Hand never passes the ceiling, the draws never exceed the request
\* plus the Evolve bonus of the Status cards drawn, and the loop stops short
\* of that only at the ceiling or on empty piles.
C19_DrawLoopEnds ==
  replica.requested =>
    LET pre == replica.pre["Local"]
        now == players["Local"]
        bonus == IF IsSome(pre.evolve) THEN Unwrap(pre.evolve).draw_on_status
                 ELSE 0
        budget == replica.count + bonus * StatusesIn(DrawnCards)
    IN  /\ msgs.draw = <<>>
        /\ Len(DrawnCards) <= MAX_HAND_SIZE
        /\ Len(now.hand.cards) = Len(pre.hand.cards) + Len(DrawnCards)
        /\ Len(now.hand.cards) <= MAX_HAND_SIZE
        /\ Len(DrawnCards) <= budget
        /\ Len(DrawnCards) < budget =>
             \/ Len(now.hand.cards) = MAX_HAND_SIZE
             \/ now.deck.cards = <<>> /\ now.discard.cards = <<>>

\* One card requested under Evolve(1) on a deck of twelve Slimed: every card
\* drawn asks for the next, ten are drawn and two stay in the deck
C19_Witness ==
  /\ replica.requested
  /\ replica.count = 1
  /\ replica.pre["Local"].hand.cards = <<>>
  /\ IsSome(players["Local"].evolve)
  /\ Len(DrawnCards) = MAX_HAND_SIZE
  /\ StatusesIn(DrawnCards) = MAX_HAND_SIZE
  /\ Len(players["Local"].deck.cards) = 2

(***************************************************************************)
(* Health under attacks, Thorns, self-damage and heals: offline frames of  *)
(* a match whose local player holds Feed, Hemokinesis and Reaper           *)
(***************************************************************************)
MaxHealthFrames == 3
HealthLocals == {120, 780}
HealthOpponents == {200, 800}
HealthThorns == {0, 80}
HealthCombusts == {None, Some(CombustEffect_new(40, 200))}
HealthWords == {0, 2, 4, 8}

InitHealth ==
  \E local_hp \in HealthLocals, opponent_hp \in HealthOpponents,
     thorns \in HealthThorns, combust \in HealthCombusts :
    \E w \in {[BareWorld(COST_RATE) EXCEPT
                 !.players["Local"].health.current = local_hp,
                 !.players["Local"].hand.cards = <<24, 16, 27>>,
                 !.players["Local"].cost.current = 16,
                 !.players["Local"].combust = combust,
                 !.players["Opponent"].health.current = opponent_hp,
                 !.players["Opponent"].thorns.damage = thorns]} :
      /\ StartWith(w)
      /\ replica = w

\* One frame of the offline match; replica keeps the players the frame
\* started from
HealthFrame(flags, delta) ==
  /\ frame < MaxHealthFrames
  /\ frame' = frame + 1
  /\ result' = CurrentResult
  /\ SetWorld(OfflineFrame(RegistrationOrder, flags, delta, CurrentResult,
                           [World EXCEPT !.next_result = None]))
  /\ replica' = [replica EXCEPT !.players = players]

NextHealth ==
  \E flags \in HealthWords, delta \in Deltas : HealthFrame(flags, delta)

SpecHealth == InitHealth /\ [][NextHealth]_vars

\* C20: the Health of both players stays within 0 and its max, whatever
\* damage, Thorns reflection, self-damage and heal the frames apply.
C20_HealthInRange ==
  \A p \in Players :
    /\ 0 <= players[p].health.current
    /\ players[p].health.current <= players[p].health.max
    /\ players[p].health.max = PLAYER_HP

\* Feed played at Health 97.5 against an opponent at 25.0: the heal of 30
\* stops at the max of 100 and the hit of 100 stops at 0
C20_Witness ==
  /\ \E i \in 1..Len(events) :
       events[i].e = "CardPlayed" /\ events[i].card_id = 24
  /\ replica.players["Local"].health.current = 780
  /\ players["Local"].health.current = PLAYER_HP
  /\ replica.players["Opponent"].health.current = 200
  /\ players["Opponent"].health.current = 0

(***************************************************************************)
(* The cost clock in whole frames: ticks, an Acceleration that runs out,   *)
(* draws and plays                                                         *)
(***************************************************************************)
MaxClockFrames == 3
ClockBalances == {0, 6}
ClockAccels == {None, Some(Acceleration_new(1, 4))}
ClockWords == {0, 1, 2, 4, 3}

InitClock ==
  \E balance \in ClockBalances, accel \in ClockAccels :
    \E w \in {[BareWorld(COST_RATE) EXCEPT
                 !.players["Local"].cost.current = balance,
                 !.players["Local"].cost.rate =
                    IF IsSome(accel) THEN COST_RATE + Unwrap(accel).bonus_rate
                    ELSE COST_RATE,
                 !.players["Local"].accel = accel,
                 !.players["Local"].hand.cards = <<15, 1, 100>>,
                 !.players["Local"].deck.cards = <<7, 9>>]} :
      /\ StartWith(w)
      /\ replica = [players |-> w.players, flags |-> 0, delta |-> 0]

\* One frame of the offline match; replica keeps the players the frame
\* started from, its input word and its delta
ClockFrame(flags, delta) ==
  /\ frame < MaxClockFrames
  /\ frame' = frame + 1
  /\ result' = CurrentResult
  /\ SetWorld(OfflineFrame(RegistrationOrder, flags, delta, CurrentResult,
                           [World EXCEPT !.next_result = None]))
  /\ replica' = [players |-> players, flags |-> flags, delta |-> delta]

NextClock ==
  \E flags \in ClockWords, delta \in Deltas : ClockFrame(flags, delta)

SpecClock == InitClock /\ [][NextClock]_vars

\* The cost of the plays player p was granted in the last frame
PlaysCost(p) ==
  CostOfPlays(replica.players[p],
              SelectSeq(events, LAMBDA ev : ev.e = "PlayRequested"
                                            /\ ev.player = p), 1)

\* C21: over a frame Cost.current grows by rate * delta, for the rate >= 0
\* the tick found (the rate of the frame's start, or that rate less the
\* bonus of an Acceleration that ran out), and is lowered only by what
\* try_spend took for a draw or a play: a frame without a spend never ends
\* with less Cost than it started with.
C21_CostMonotone ==
  frame > 0 =>
    \A p \in Players :
      LET pre == replica.players[p].cost
          now == players[p].cost
          could_draw == p = "Local" /\ FlagSet(replica.flags, 0)
      IN  /\ now.rate >= 0
          /\ \E rate \in 0..pre.rate,
                draws \in {0, IF could_draw THEN 1 ELSE 0} :
               now.current = pre.current + rate * replica.delta
                               - draws * DRAW_COST - PlaysCost(p)
          /\ (replica.flags = 0 \/ p = "Opponent") =>
               /\ now.current >= pre.current
               /\ PlaysCost(p) = 0

\* A frame without input in which the Acceleration ran out, and the Cost
\* still grew
C21_Witness ==
  /\ frame > 0
  /\ replica.flags = 0
  /\ IsSome(replica.players["Local"].accel)
  /\ ~IsSome(players["Local"].accel)
  /\ players["Local"].cost.rate = COST_RATE
  /\ players["Local"].cost.current > replica.players["Local"].cost.current

(***************************************************************************)
(* DoubleBlock and DoubleStrength inside a Combo: one played card whose    *)
(* effect tree is given, resolved by apply_card_effects, then the status   *)
(* and Health systems of the frame                                         *)
(***************************************************************************)
MaxDoubleSteps == 2
DoubleStrengths == {0, 2, 4}
DoubleBlocks == {0, 40}
\* Strength(+1.0), Block(5.0) and the two doubling effects, alone and in
\* Combos
DoubleEffects ==
  {[k |-> "DoubleStrength"],
   [k |-> "DoubleBlock"],
   [k |-> "Combo", effects |-> <<[k |-> "Strength", amount |-> 2],
                                 [k |-> "DoubleStrength"]>>],
   [k |-> "Combo", effects |-> <<[k |-> "DoubleStrength"],
                                 [k |-> "DoubleStrength"]>>],
   [k |-> "Combo", effects |-> <<[k |-> "Block", amount |-> 40],
                                 [k |-> "DoubleBlock"]>>]}

InitDouble ==
  \E strength \in DoubleStrengths, block \in DoubleBlocks :
    \E w \in {[BareWorld(COST_RATE) EXCEPT
                 !.players["Local"].strength.amount = strength,
                 !.players["Local"].block.current = block]} :
      /\ StartWith(w)
      /\ replica = [players |-> w.players, effect |-> [k |-> "Exhaust"]]

\* apply_card_effects for one played card whose effect tree is effect, then
\* apply_status_effects and the Health systems; replica keeps the players
\* the card was played on
PlayDouble(effect) ==
  /\ frame < MaxDoubleSteps
  /\ frame' = frame + 1
  /\ SetWorld(HealthSystems(
                apply_status_effects(
                  Flush(apply_card_effect(
                          effect, "Local", "Opponent",
                          players["Local"].strength.amount,
                          [World EXCEPT !.events = <<>>])))))
  /\ replica' = [players |-> players, effect |-> effect]
  /\ UNCHANGED result

NextDouble == \E effect \in DoubleEffects : PlayDouble(effect)

SpecDouble == InitDouble /\ [][NextDouble]_vars

\* C22: the doubling effects of a Combo see what the earlier effects of the
\* same Combo gave: Strength(s) then DoubleStrength from Strength 0 ends
\* with 2s, DoubleStrength twice from s ends with 4s, Block(b) then
\* DoubleBlock from Block 0 ends with 2b.
C22_DoublesCompound ==
  LET pre == replica.players["Local"]
      now == players["Local"]
      effect == replica.effect
  IN  effect.k = "Combo" =>
        LET first == effect.effects[1]
            second == effect.effects[2]
        IN  /\ (first.k = "Strength" /\ second.k = "DoubleStrength"
                /\ pre.strength.amount = 0)
                 => now.strength.amount = 2 * first.amount
            /\ (first.k = "DoubleStrength" /\ second.k = "DoubleStrength")
                 => now.strength.amount = 4 * pre.strength.amount
            /\ (first.k = "Block" /\ second.k = "DoubleBlock"
                /\ pre.block.current = 0)
                 => now.block.current = 2 * first.amount

(***************************************************************************)
(* Power cards played again: one played card whose effect tree is given,   *)
(* resolved by apply_card_effects with its commands applied, and the tick  *)
(* systems in between                                                      *)
(***************************************************************************)
MaxPowerSteps == 3
PowerFields ==
  {"rage", "metallicize", "combust", "demon_form", "barricade", "juggernaut",
   "dark_embrace", "evolve", "feel_no_pain", "fire_breathing", "rupture",
   "corruption", "brutality"}
PowerEffects ==
  {[k |-> "Rage", block_per_attack |-> 24],
   [k |-> "Rage", block_per_attack |-> 40],
   [k |-> "Metallicize", block_per_second |-> 2],
   [k |-> "Metallicize", block_per_second |-> 3],
   [k |-> "Combust", self_damage |-> 40, enemy_damage |-> 200],
   [k |-> "Combust", self_damage |-> 80, enemy_damage |-> 400],
   [k |-> "DemonForm", strength_per_second |-> 1],
   [k |-> "DemonForm", strength_per_second |-> 3],
   [k |-> "Barricade"],
   [k |-> "Juggernaut", damage_on_block |-> 40],
   [k |-> "Juggernaut", damage_on_block |-> 56],
   [k |-> "DarkEmbrace", draw |-> 1],
   [k |-> "Evolve", draw |-> 1],
   [k |-> "Evolve", draw |-> 2],
   [k |-> "FeelNoPain", block |-> 24],
   [k |-> "FireBreathing", damage |-> 48],
   [k |-> "Rupture", strength |-> 2],
   [k |-> "Corruption"],
   [k |-> "Brutality", self_damage |-> 8, draw |-> 1, interval |-> 4],
   [k |-> "Combo",
    effects |-> <<[k |-> "Combust", self_damage |-> 40, enemy_damage |-> 200],
                  [k |-> "Combust", self_damage |-> 80,
                   enemy_damage |-> 400]>>]}

InitPower ==
  \E w \in {[BareWorld(COST_RATE) EXCEPT
               !.players["Local"].deck.cards = <<1, 100, 7>>]} :
    /\ StartWith(w)
    /\ replica = w

\* The commands of apply_card_effects for a card of the given effect tree,
\* applied to world w
PlayedOn(w, effect) ==
  Flush(apply_card_effect(effect, "Local", "Opponent",
                          w.players["Local"].strength.amount, w))

PlayPower(effect) ==
  /\ frame < MaxPowerSteps
  /\ frame' = frame + 1
  /\ SetWorld(PlayedOn(Emit(World, [e |-> "Effect", effect |-> effect]),
                       effect))
  /\ UNCHANGED <<result, replica>>

\* The tick systems of one frame
TickPowers(delta) ==
  /\ frame < MaxPowerSteps
  /\ frame' = frame + 1
  /\ SetWorld(Emit(RunTickSystems(RegistrationOrder, 1, delta, World),
                   [e |-> "Tick", delta |-> delta]))
  /\ UNCHANGED <<result, replica>>

NextPower ==
  \/ \E effect \in PowerEffects : PlayPower(effect)
  \/ \E delta \in Deltas : TickPowers(delta)

SpecPower == InitPower /\ [][NextPower]_vars

\* C23: a power card played on a player who carries that power already
\* leaves the component the card gives to a player without it: the
\* parameters of the latest play, nothing of the earlier one, and the other
\* powers as they were; a Combo of two Combusts leaves the second.
C23_PowerReplaces ==
  [][LastEventIs("Effect") =>
       LET effect == events'[Len(events')].effect
           fresh == PlayedOn(replica, effect).players["Local"]
       IN  /\ \A field \in PowerFields :
                players'["Local"][field] =
                  IF IsSome(fresh[field]) THEN fresh[field]
                  ELSE players["Local"][field]
           /\ \E field \in PowerFields : IsSome(fresh[field])
           /\ effect.k = "Combo" =>
                players'["Local"].combust = Some(CombustEffect_new(80, 400))
           /\ effect.k = "Juggernaut" =>
                players'["Local"].juggernaut =
                  Some([damage_on_block |-> effect.damage_on_block])]_vars

\* Combust(5, 25) was played, a tick moved its timer, and Combust(10, 50)
\* played after it is the one attached, with a fresh timer
C23_Witness ==
  /\ Len(events) = 3
  /\ events[1].e = "Effect" /\ events[1].effect.k = "Combust"
  /\ events[1].effect.self_damage = 40
  /\ events[2].e = "Tick"
  /\ events[3].e = "Effect" /\ events[3].effect.k = "Combust"
  /\ events[3].effect.self_damage = 80
  /\ players["Local"].combust = Some(CombustEffect_new(80, 400))

(***************************************************************************)
(* The periodic powers on their own: a player carrying Combust and         *)
(* Brutality, and tick_power_effects_delta run with deltas of 0.5 s to     *)
(* 2.5 s; the messages written are kept                                    *)
(***************************************************************************)
MaxPeriodTicks == 3
\* Intervals of 0 s, 1.5 s and 2 s, and a negative one
BrutalityIntervals == {0, 3, 4, -2}
PeriodDeltas == {1, 2, 4, 5}

InitPeriod ==
  \E interval \in BrutalityIntervals :
    \E w \in {[BareWorld(COST_RATE) EXCEPT
                 !.players["Local"].combust =
                    Some(CombustEffect_new(40, 200)),
                 !.players["Local"].brutality =
                    Some(BrutalityEffect_new(8, 1, interval))]} :
      /\ StartWith(w)
      /\ replica = w

\* tick_power_effects_delta for one frame
PeriodTick(delta) ==
  /\ frame < MaxPeriodTicks
  /\ frame' = frame + 1
  /\ SetWorld(Emit(tick_power_effects_delta(delta, World),
                   [e |-> "Tick", delta |-> delta]))
  /\ UNCHANGED <<result, replica>>

NextPeriod == \E delta \in PeriodDeltas : PeriodTick(delta)

SpecPeriod == InitPeriod /\ [][NextPeriod]_vars

\* The damage messages written so far for a target with an amount
DamageCount(target, amount) ==
  Cardinality({i \in 1..Len(msgs.damage) :
                 /\ msgs.damage[i].target = target
                 /\ msgs.damage[i].amount = amount})

\* C24: the Combust batches written so far are floor(elapsed / 1.0), the
\* Brutality batches floor(elapsed / interval), both timers are below
\* their period after every tick, and a Brutality with an interval <= 0
\* writes nothing.
C24_PeriodicCounts ==
  LET elapsed == Elapsed(events, 1)
      combust == Unwrap(players["Local"].combust)
      brutality == Unwrap(players["Local"].brutality)
      batches == IF brutality.interval > 0
                 THEN elapsed \div brutality.interval ELSE 0
  IN  /\ DamageCount("Local", combust.self_damage)
           = elapsed \div COMBUST_PERIOD
      /\ DamageCount("Opponent", combust.enemy_damage)
           = elapsed \div COMBUST_PERIOD
      /\ combust.timer = elapsed % COMBUST_PERIOD
      /\ DamageCount("Local", brutality.self_damage) = batches
      /\ Len(msgs.draw) = batches
      /\ \A i \in 1..Len(msgs.draw) :
           msgs.draw[i] = DrawCardsMessage("Local", brutality.draw)
      /\ IF brutality.interval > 0
         THEN brutality.timer = elapsed % brutality.interval
         ELSE brutality.timer = 0
      /\ Len(msgs.damage) = 2 * (elapsed \div COMBUST_PERIOD) + batches

\* One tick of 2.5 s wrote two Combust batches, and one Brutality batch
\* for an interval of 1.5 s
C24_Witness ==
  /\ Len(events) = 1
  /\ events[1].delta = 5
  /\ DamageCount("Opponent", 200) = 2
  /\ Unwrap(players["Local"].brutality).interval = 3
  /\ Len(msgs.draw) = 1
  /\ Unwrap(players["Local"].brutality).timer = 2

(***************************************************************************)
(* Demon Form on its own: a player carrying the power, and                 *)
(* tick_status_effects_delta run with deltas of 0.5 s to 2.5 s             *)
(***************************************************************************)
MaxDemonTicks == 4
\* Strength per second: 1, 2 (the card of the registry) and 3
DemonRates == {1, 2, 3}

InitDemon ==
  \E strength_per_second \in DemonRates :
    \E w \in {[BareWorld(COST_RATE) EXCEPT
                 !.players["Local"].demon_form =
                    Some(DemonFormEffect_new(strength_per_second))]} :
      /\ StartWith(w)
      /\ replica = w

\* tick_status_effects_delta for one frame
DemonTick(delta) ==
  /\ frame < MaxDemonTicks
  /\ frame' = frame + 1
  /\ SetWorld(Emit(tick_status_effects_delta(delta, World),
                   [e |-> "Tick", delta |-> delta]))
  /\ UNCHANGED <<result, replica>>

NextDemon == \E delta \in PeriodDeltas : DemonTick(delta)

SpecDemon == InitDemon /\ [][NextDemon]_vars

MaxTriggerFrames == 3
TriggerMetallicizes == {None, Some([block_per_second |-> 3])}
TriggerHealths == {800, 400}
TriggerWords == {0, 2, 4, 8}

InitTrigger ==
  \E metallicize \in TriggerMetallicizes, hp \in TriggerHealths :
    \E w \in {[BareWorld(COST_RATE) EXCEPT
                 !.players["Local"].health.current = hp,
                 !.players["Local"].hand.cards = <<100, 108, 16>>,
                 !.players["Local"].cost.current = 16,
                 !.players["Local"].metallicize = metallicize,
                 !.players["Local"].juggernaut =
                    Some([damage_on_block |-> 400]),
                 !.players["Local"].rupture =
                    Some([strength_on_self_damage |-> 2])]} :
      /\ StartWith(w)
      /\ replica = [players |-> w.players, flags |-> 0, delta |-> 0]

\* One frame of the offline match; replica keeps the players the frame
\* started from, its input word and its delta
TriggerFrame(flags, delta) ==
  /\ frame < MaxTriggerFrames
  /\ frame' = frame + 1
  /\ result' = CurrentResult
  /\ SetWorld(OfflineFrame(RegistrationOrder, flags, delta, CurrentResult,
                           [World EXCEPT !.next_result = None]))
  /\ replica' = [players |-> players, flags |-> flags, delta |-> delta]

NextTrigger ==
  \E flags \in TriggerWords, delta \in Deltas : TriggerFrame(flags, delta)

SpecTrigger == InitTrigger /\ [][NextTrigger]_vars

\* C26: a frame in which a player carrying Juggernaut gained Block (from
\* Defend or Metallicize) deals damage_on_block to the opponent: the damage
\* was handled in the frame or its message is written.
C26_JuggernautTriggers ==
  \A p \in Players :
    LET pre == replica.players[p]
        now == players[p]
    IN  (frame > 0 /\ IsSome(pre.juggernaut)
         /\ now.block.current > pre.block.current)
          => \/ \E i \in 1..Len(events) :
                  /\ events[i].e = "Damage"
                  /\ events[i].target = opponent_entity(p)
                  /\ events[i].amount = Unwrap(pre.juggernaut).damage_on_block
             \/ \E i \in 1..Len(msgs.damage) :
                  /\ msgs.damage[i].target = opponent_entity(p)
                  /\ msgs.damage[i].amount
                       = Unwrap(pre.juggernaut).damage_on_block

\* C27: a frame in which a player carrying Rupture lost HP to the
\* Bloodletting of their own card ends with Strength raised by
\* strength_on_self_damage.
C27_RuptureTriggers ==
  \A p \in Players :
    LET pre == replica.players[p]
        now == players[p]
    IN  (/\ frame > 0
         /\ IsSome(pre.rupture)
         /\ \E i \in 1..Len(events) :
              /\ events[i].e = "Damage"
              /\ events[i].target = p
              /\ events[i].source = Some(p)
              /\ events[i].kind = "Power"
              /\ events[i].health_after < events[i].health)
          => now.strength.amount
               >= pre.strength.amount + Unwrap(pre.rupture).strength_on_self_damage

(***************************************************************************)
(* The order of the pipeline, seen from the damage of one frame: the local *)
(* player carries Combust (damage written by the power tick) and plays     *)
(* Strike (damage written by the effect resolution).  The variables are    *)
(* the offline run, replica.run is the rollback run of the same match.     *)
(***************************************************************************)
MaxOrderFrames == 3
OrderCombusts == {CombustEffect_new(8, 16), CombustEffect_new(40, 0)}
OrderBalances == {8, 16}
OrderWords == {0, 2}

InitOrder ==
  \E combust \in OrderCombusts, balance \in OrderBalances :
    \E w \in {[BareWorld(COST_RATE) EXCEPT
                 !.players["Local"].combust = Some(combust),
                 !.players["Local"].cost.current = balance,
                 !.players["Local"].hand.cards = <<1, 1>>]} :
      /\ StartWith(w)
      /\ replica = [run |-> [w |-> w, pending |-> NoPending,
                             result |-> "Playing"],
                    pre |-> w.players]

\* One frame of the Update schedule offline and one frame of GgrsSchedule
\* online, on the same word; replica.pre keeps the players the online frame
\* started from
OrderFrame(flags, delta, slot) ==
  /\ frame < MaxOrderFrames
  /\ frame' = frame + 1
  /\ result' = CurrentResult
  /\ SetWorld(OfflineFrame(RegistrationOrder, flags, delta, CurrentResult,
                           [World EXCEPT !.next_result = None]))
  /\ replica' = [run |-> AdvanceReplica(replica.run, slot, flags, 0, delta),
                 pre |-> replica.run.w.players]

NextOrder ==
  \E flags \in OrderWords, delta \in Deltas, slot \in NetworkSlots :
    OrderFrame(flags, delta, slot)

SpecOrder == InitOrder /\ [][NextOrder]_vars

\* The positions in the log of the frame of the damage of a kind
DamageOfKind(kind) ==
  {i \in 1..Len(events) : events[i].e = "Damage" /\ events[i].kind = kind}

\* C28: a play accepted in a frame has its damage handled in that frame, on
\* the offline path and on the rollback path, and the damage of the effect
\* resolution comes before the damage of the power tick, as in the order
\* tick timers, input, deck, effects, status and power ticking, health.
C28_PipelineOrder ==
  /\ (\E i \in 1..Len(events) : events[i].e = "PlayRequested")
       => DamageOfKind("Attack") # {}
  /\ \A i \in DamageOfKind("Attack"), j \in DamageOfKind("Power") : i < j
  /\ Len(replica.run.w.players["Local"].hand.cards)
       < Len(replica.pre["Local"].hand.cards)
       => replica.run.w.players["Opponent"].health.current
            < replica.pre["Opponent"].health.current

(***************************************************************************)
(* Deck::seed_for_handle on its own: the seeds of one match, derived for   *)
(* one handle after another.  replica.seeds is the set of the pairs        *)
(* <<handle, seed>> derived so far; a handle may be derived again, as      *)
(* PlayerBundle::new and OpponentBundle::new do at every spawn.            *)
(***************************************************************************)
MaxSeedSteps == 3
\* the match seeds: 0, 7, the two constants of the derivation and u64::MAX
SeedInputs ==
  {U64FromInt(0), U64FromInt(7), DEFAULT_DECK_SEED, GOLDEN_RATIO,
   <<255, 255, 255, 255, 255, 255, 255, 255>>}
\* the handles: the two of a match, and larger ones whose product wraps
SeedHandles == {0, 1, 2, 3, 65535, 16777215}

InitSeed ==
  \E match_seed \in SeedInputs :
    /\ StartWith(BareWorld(COST_RATE))
    /\ replica = [match_seed |-> match_seed, seeds |-> {}]

DeriveSeed(handle) ==
  /\ frame < MaxSeedSteps
  /\ frame' = frame + 1
  /\ replica' = [replica EXCEPT
                   !.seeds = @ \cup {<<handle,
                                       seed_for_handle(replica.match_seed,
                                                       handle)>>}]
  /\ UNCHANGED <<players, msgs, changed, result, next_result, events>>

NextSeed == \E handle \in SeedHandles : DeriveSeed(handle)

SpecSeed == InitSeed /\ [][NextSeed]_vars

\* C29: for a fixed match seed two distinct handles get distinct seeds under
\* 64-bit wraparound, and a handle derived again gets the seed it had: the
\* seed is a function of the match seed and the handle.
C29_SeedsDistinct ==
  /\ \A a \in replica.seeds, b \in replica.seeds :
       /\ a[1] # b[1] => a[2] # b[2]
       /\ a[1] = b[1] => a[2] = b[2]
  /\ \A a \in replica.seeds : a[2] \in U64

\* the two handles of a match and a handle whose product wraps were derived
C29_Witness ==
  /\ {0, 1} \subseteq {a[1] : a \in replica.seeds}
  /\ \E a \in replica.seeds :
       /\ a[1] > 1
       /\ a[2] # Xor64(DEFAULT_DECK_SEED, replica.match_seed)
  /\ Cardinality(replica.seeds) = 3

(***************************************************************************)
(* The lobby (network/lobby.rs) and the spawn of the level (demo/level.rs) *)
(* on the two peers of a match.  replica.peer[p] is what peer p holds: its *)
(* socket (id, whether the id is known to the peer yet, the peers          *)
(* connected), the resources lobby_system inserts, its screen, the handles *)
(* the level was spawned with and the GgrsSchedule ticks it ran.           *)
(***************************************************************************)
NUM_PLAYERS == 2
MaxLobbyTicks == 2
LobbyPeers == {"A", "B"}
\* the PeerIds the signalling server hands out, ordered as Ord orders them
PeerIds == {3, 5, 9}

OtherPeer(p) == CHOOSE q \in LobbyPeers : q # p

Vec_sort_unsorted(v) == v

\* Vec::sort: ascending
RECURSIVE Vec_sort(_)
Vec_sort(v) ==
  IF v = <<>> THEN <<>>
  ELSE LET i == CHOOSE i \in 1..Len(v) : \A j \in 1..Len(v) : v[i] <= v[j]
       IN  <<v[i]>> \o Vec_sort(SubSeq(v, 1, i - 1) \o SubSeq(v, i + 1, Len(v)))

\* the PlayerType added for handle i - 1
PlayerTypes(local_peer_id, peer_ids) ==
  [i \in 1..Len(peer_ids) |->
     IF peer_ids[i] = local_peer_id THEN [t |-> "Local"]
     ELSE [t |-> "Remote", peer |-> peer_ids[i]]]

\* a deterministic function of the list of peer ids, sensitive to its order
RECURSIVE match_seed_from_peers(_)
match_seed_from_peers(peer_ids) ==
  IF peer_ids = <<>> THEN DEFAULT_DECK_SEED
  ELSE WrappingAdd(WrappingMul(match_seed_from_peers(
                                 SubSeq(peer_ids, 1, Len(peer_ids) - 1)),
                               GOLDEN_RATIO),
                   peer_ids[Len(peer_ids)])

build_network_players(local_peer_id, peer_ids) ==
  [local_peer_id |-> local_peer_id, handles |-> peer_ids]

\* NetworkPlayers::local_handle: the index of the local peer id, if any
NetworkPlayers_local_handle(network_players) ==
  IF \E i \in 1..Len(network_players.handles) :
       network_players.handles[i] = network_players.local_peer_id
  THEN Some((CHOOSE i \in 1..Len(network_players.handles) :
               network_players.handles[i] = network_players.local_peer_id) - 1)
  ELSE None

NewPeer(id) ==
  [id |-> id, id_known |-> FALSE, connected |-> <<>>, session |-> None,
   network_players |-> None, match_seed |-> None, screen |-> "Lobby",
   spawned |-> None, ticks |-> 0]

InitLobby ==
  \E a \in PeerIds : \E b \in PeerIds \ {a} :
    /\ StartWith(BareWorld(COST_RATE))
    /\ replica = [peer |-> [p \in LobbyPeers |->
                              NewPeer(IF p = "A" THEN a ELSE b)]]

SetPeer(p, new) ==
  /\ replica' = [replica EXCEPT !.peer[p] = new]
  /\ UNCHANGED <<players, msgs, changed, result, next_result, events, frame>>

\* the socket of peer p learns its own id from the signalling server
IdAssigned(p) ==
  /\ ~replica.peer[p].id_known
  /\ SetPeer(p, [replica.peer[p] EXCEPT !.id_known = TRUE])

\* the socket of peer p reports the other peer as connected
PeerConnected(p) ==
  /\ replica.peer[p].connected = <<>>
  /\ SetPeer(p, [replica.peer[p] EXCEPT
                   !.connected = <<replica.peer[OtherPeer(p)].id>>])

\* SessionState::Running: the two sessions have synchronized
SessionRunning(p) ==
  /\ IsSome(replica.peer[p].session)
  /\ IsSome(replica.peer[OtherPeer(p)].session)

\* lobby_system, run_if(in_state(Screen::Lobby))
lobby_system(me) ==
  IF me.screen # "Lobby" THEN me
  ELSE IF IsSome(me.session)
  THEN me
  ELSE IF Len(me.connected) + 1 < NUM_PLAYERS THEN me
  ELSE IF ~me.id_known THEN me
  ELSE Bind(Vec_sort(Append(me.connected, me.id)), LAMBDA peer_ids :
         [me EXCEPT
            !.session = Some([players |-> PlayerTypes(me.id, peer_ids)]),
            !.network_players = Some(build_network_players(me.id, peer_ids)),
            !.match_seed = Some(match_seed_from_peers(peer_ids))])

LobbyUpdate(p) ==
  /\ replica.peer[p].screen = "Lobby"
  /\ SetPeer(p, IF IsSome(replica.peer[p].session) /\ SessionRunning(p)
                THEN [replica.peer[p] EXCEPT !.screen = "Gameplay"]
                ELSE lobby_system(replica.peer[p]))

\* spawn_level_once online: the handles of the two bundles
spawn_level_once(me) ==
  IF IsSome(me.spawned) \/ ~IsSome(me.network_players) THEN me
  ELSE Bind(NetworkPlayers_local_handle(Unwrap(me.network_players)),
         LAMBDA local_handle :
           IF ~IsSome(local_handle) THEN me
           ELSE Bind({i - 1 : i \in {j \in 1..Len(Unwrap(me.network_players).handles) :
                                        j - 1 # Unwrap(local_handle)}},
                  LAMBDA others :
                    IF others = {} THEN me
                    ELSE [me EXCEPT
                            !.spawned =
                              Some([local_handle |-> Unwrap(local_handle),
                                    opponent_handle |->
                                      CHOOSE i \in others :
                                        \A j \in others : i <= j])]))

SpawnLevelOnline(p) ==
  /\ replica.peer[p].screen = "Gameplay"
  /\ ~IsSome(replica.peer[p].spawned)
  /\ SetPeer(p, spawn_level_once(replica.peer[p]))

\* one GgrsSchedule tick of peer p: the session is running
LobbyTick(p) ==
  /\ SessionRunning(p)
  /\ replica.peer[p].ticks < MaxLobbyTicks
  /\ SetPeer(p, [replica.peer[p] EXCEPT !.ticks = @ + 1])

NextLobby ==
  \E p \in LobbyPeers :
    \/ IdAssigned(p)
    \/ PeerConnected(p)
    \/ LobbyUpdate(p)
    \/ SpawnLevelOnline(p)
    \/ LobbyTick(p)

SpecLobby == InitLobby /\ [][NextLobby]_vars

\* C30: whatever the order of the connections, a peer that has ticked or
\* spawned its level holds the same handles (the sorted peer ids) and the
\* same match seed as the other peer, marks exactly its own id Local, and
\* the two peers give each other the opposite handles.
C30_PeersAgree ==
  \A p \in LobbyPeers :
    Bind(replica.peer[p], LAMBDA me :
      Bind(replica.peer[OtherPeer(p)], LAMBDA other :
        /\ IsSome(me.session) =>
             /\ Unwrap(me.network_players).handles
                  = Vec_sort(<<me.id, other.id>>)
             /\ \A i \in 1..NUM_PLAYERS :
                  (Unwrap(me.session).players[i].t = "Local")
                    <=> (Unwrap(me.network_players).handles[i] = me.id)
             /\ Unwrap(me.match_seed)
                  = match_seed_from_peers(Unwrap(me.network_players).handles)
        /\ (me.ticks > 0 \/ IsSome(me.spawned)) =>
             /\ IsSome(other.session)
             /\ Unwrap(me.network_players).handles
                  = Unwrap(other.network_players).handles
             /\ me.match_seed = other.match_seed
             /\ \A i \in 1..NUM_PLAYERS :
                  (Unwrap(me.session).players[i].t = "Local")
                    <=> (Unwrap(other.session).players[i].t = "Remote")
        /\ (IsSome(me.spawned) /\ IsSome(other.spawned)) =>
             /\ Unwrap(me.spawned).local_handle
                  = Unwrap(other.spawned).opponent_handle
             /\ Unwrap(me.spawned).local_handle
                  # Unwrap(other.spawned).local_handle))

\* both peers have spawned their level and ticked; peer A holds the larger
\* id and so plays handle 1
C30_Witness ==
  /\ \A p \in LobbyPeers :
       /\ IsSome(replica.peer[p].spawned)
       /\ replica.peer[p].ticks > 0
  /\ replica.peer["A"].id > replica.peer["B"].id
  /\ Unwrap(replica.peer["A"].spawned).local_handle = 1

(***************************************************************************)
(* Two matches in a row, offline.  A match is left through the result      *)
(* overlay (handle_result_input, game/ui.rs) and entered again from the    *)
(* menu.  replica holds the screen, the PendingInput resource, the number  *)
(* of matches entered and the frames run in the current one; players are   *)
(* the player entities of the current match while the screen is Gameplay.  *)
(***************************************************************************)
MaxMatchFrames == 3
MaxMatches == 2
MatchWords == {0, 1, 2}

\* u16 |
BitOr(a, b) ==
  LET B[i \in 0..16] ==
        IF i = 0 THEN 0
        ELSE B[i - 1]
             + (IF FlagSet(a, i - 1) \/ FlagSet(b, i - 1) THEN 2 ^ (i - 1)
                ELSE 0)
  IN  B[16]

PendingInput_push_flags(pending, flags) == BitOr(pending, flags)

InitMatch ==
  \E local_hp \in EndLocalHealths, opponent_hp \in {200},
     thorns \in EndThorns, combust \in EndCombusts :
    \E w \in {EndWorld(local_hp, opponent_hp, thorns, combust)} :
      /\ StartWith(w)
      /\ replica = [screen |-> "Gameplay", pending_input |-> 0,
                    matches |-> 1, age |-> 1]

\* One Update frame of a match: StateTransition applies NextState, the
\* systems of RecordInput push the keys and apply_pending_inputs takes the
\* flags, both only in GameResult::Playing
MatchFrame(keys, delta) ==
  /\ replica.screen = "Gameplay"
  /\ replica.age < MaxMatchFrames
  /\ frame' = frame + 1
  /\ result' = CurrentResult
  /\ \E pushed \in {IF CurrentResult = "Playing"
                    THEN PendingInput_push_flags(replica.pending_input, keys)
                    ELSE replica.pending_input} :
       /\ SetWorld(OfflineFrame(RegistrationOrder,
                                IF CurrentResult = "Playing" THEN pushed ELSE 0,
                                delta, CurrentResult,
                                [World EXCEPT !.next_result = None]))
       /\ replica' = [replica EXCEPT
                        !.pending_input =
                          IF CurrentResult = "Playing" THEN 0 ELSE pushed,
                        !.age = @ + 1]

\* Space on the result overlay (handle_result_input, not in Playing), then
\* OnExit(Screen::Gameplay): the messages are cleared and the entities
\* marked DespawnOnExit are despawned
LeaveGameplay ==
  /\ replica.screen = "Gameplay"
  /\ result # "Playing"
  /\ replica' = [replica EXCEPT !.screen = "Title"]
  /\ msgs' = NoMessages
  /\ changed' = {}
  /\ events' = <<>>
  /\ UNCHANGED <<players, result, next_result, frame>>

\* The Solo button, then the frame that enters Screen::Gameplay: the state
\* transitions run, OnEnter runs reset_level_spawned and reset_game_result,
\* and in Update spawn_level_once spawns the players and asks for the hands
EnterGameplay(match_seed, deck) ==
  /\ replica.screen = "Title"
  /\ replica.matches < MaxMatches
  /\ \E w \in {SpawnLevel(match_seed, deck)} :
       /\ players' = w.players
       /\ msgs' = w.msgs
       /\ changed' = w.changed
       /\ events' = w.events
  /\ result' = CurrentResult
  /\ next_result' = Some("Playing")
  /\ frame' = frame + 1
  /\ replica' = [replica EXCEPT !.screen = "Gameplay", !.matches = @ + 1,
                                !.age = 0]

NextMatch ==
  \/ \E keys \in MatchWords, delta \in Deltas : MatchFrame(keys, delta)
  \/ LeaveGameplay
  \/ \E match_seed \in MatchSeeds, deck \in Decks :
       EnterGameplay(match_seed, deck)

SpecMatch == InitMatch /\ [][NextMatch]_vars

\* a player as PlayerBundle::new builds it, whatever its deck
FreshPlayer(pl) ==
  /\ pl.health.current = PLAYER_HP
  /\ pl.cost.current = 0
  /\ pl.cost.rate = COST_RATE
  /\ pl.hand.cards = <<>>
  /\ pl.discard.cards = <<>>
  /\ [pl EXCEPT !.deck = 0, !.handle = 0]
       = [PlayerBundle_new(U64FromInt(0), 0, COST_RATE, <<>>, PLAYER_HP)
            EXCEPT !.deck = 0, !.handle = 0]

\* the state the second match starts from
SecondMatchStarts ==
  /\ replica.screen = "Gameplay"
  /\ replica.matches = 2
  /\ replica.age = 0

\* C31: a match entered again starts with both players freshly built, with
\* GameResult Playing, with no message queued but the two requests for the
\* initial hands, and with no pending input flag.
C31_NothingSurvives ==
  SecondMatchStarts =>
    /\ \A p \in Players : FreshPlayer(players[p])
    /\ result = "Playing"
    /\ msgs = [NoMessages EXCEPT
                 !.draw = <<DrawCardsMessage("Local", INITIAL_HAND),
                            DrawCardsMessage("Opponent", INITIAL_HAND)>>]
    /\ replica.pending_input = 0

(***************************************************************************)
(* CardEffect::Combo on its own: one card effect resolved by               *)
(* apply_card_effect, then the messages it wrote handled by                *)
(* apply_status_effects and the Health systems.  replica keeps the effect  *)
(* and the messages as they were written.                                  *)
(***************************************************************************)
MaxComboSteps == 2
ComboBlocks == {0, 20, 48, 400}
ComboEffects ==
  {[k |-> "Combo", effects |-> <<[k |-> "Damage", amount |-> 8],
                                 [k |-> "Damage", amount |-> 16],
                                 [k |-> "Damage", amount |-> 24]>>],
   [k |-> "Combo",
    effects |-> <<[k |-> "Damage", amount |-> 24],
                  [k |-> "Combo",
                   effects |-> <<[k |-> "Damage", amount |-> 8],
                                 [k |-> "Block", amount |-> 40],
                                 [k |-> "Damage", amount |-> 16]>>],
                  [k |-> "Block", amount |-> 16],
                  [k |-> "Damage", amount |-> 32]>>],
   [k |-> "Combo",
    effects |-> <<[k |-> "Combo",
                   effects |-> <<[k |-> "Damage", amount |-> 16],
                                 [k |-> "Heal", amount |-> 8]>>],
                  [k |-> "MultiHit", damage |-> 40, hits |-> 2],
                  [k |-> "Combo",
                   effects |-> <<[k |-> "Combo",
                                  effects |-> <<[k |-> "Damage",
                                                 amount |-> 8]>>],
                                 [k |-> "Heal", amount |-> 24],
                                 [k |-> "Damage", amount |-> 24]>>]>>],
   [k |-> "Combo", effects |-> <<[k |-> "Draw", count |-> 1],
                                 [k |-> "Damage", amount |-> 8],
                                 [k |-> "Draw", count |-> 2]>>],
   [k |-> "Combo", effects |-> <<>>],
   [k |-> "Damage", amount |-> 48]}

InitCombo ==
  \E block \in ComboBlocks :
    \E w \in {[BareWorld(COST_RATE) EXCEPT
                 !.players["Opponent"].block.current = block,
                 !.players["Local"].health.current = 400]} :
      /\ StartWith(w)
      /\ replica = [effect |-> [k |-> "Combo", effects |-> <<>>],
                    emitted |-> NoMessages]

PlayCombo(effect) ==
  /\ frame < MaxComboSteps
  /\ frame' = frame + 1
  /\ \E written \in {apply_card_effect(effect, "Local", "Opponent",
                                       players["Local"].strength.amount,
                                       [World EXCEPT !.events = <<>>,
                                                     !.msgs = NoMessages])} :
       /\ SetWorld(HealthSystems(apply_status_effects(Flush(written))))
       /\ replica' = [effect |-> effect, emitted |-> written.msgs]
  /\ UNCHANGED result

NextCombo == \E effect \in ComboEffects : PlayCombo(effect)

SpecCombo == InitCombo /\ [][NextCombo]_vars

\* The primitive effects of an effect, children of a Combo in list order and
\* a nested Combo expanded where it stands
RECURSIVE Flatten(_)
RECURSIVE FlattenAll(_)
Flatten(effect) ==
  IF effect.k = "Combo" THEN FlattenAll(effect.effects) ELSE <<effect>>

FlattenAll(effects) ==
  IF effects = <<>> THEN <<>>
  ELSE Flatten(Head(effects)) \o FlattenAll(Tail(effects))

\* The amounts of the intents of a kind that a list of primitives sends
RECURSIVE IntentsOf(_, _)
IntentsOf(flat, kind) ==
  IF flat = <<>> THEN <<>>
  ELSE (CASE kind = "damage" /\ Head(flat).k = "Damage" ->
               <<Head(flat).amount>>
          [] kind = "damage" /\ Head(flat).k = "MultiHit" ->
               [i \in 1..Head(flat).hits |-> Head(flat).damage]
          [] kind = "gain_block" /\ Head(flat).k = "Block" ->
               <<Head(flat).amount>>
          [] kind = "heal" /\ Head(flat).k = "Heal" -> <<Head(flat).amount>>
          [] kind = "draw" /\ Head(flat).k = "Draw" -> <<Head(flat).count>>
          [] OTHER -> <<>>)
       \o IntentsOf(Tail(flat), kind)

\* The amounts of the Damage events of the log, in the order handled
RECURSIVE HandledDamage(_)
HandledDamage(log) ==
  IF log = <<>> THEN <<>>
  ELSE (IF Head(log).e = "Damage" THEN <<Head(log).amount>> ELSE <<>>)
       \o HandledDamage(Tail(log))

\* C32: a Combo writes the intents of its children in list order, a nested
\* Combo expanded depth-first where it stands, and the damage intents are
\* handled in the order they were written.
C32_ComboOrder ==
  frame > 0 =>
    Bind(Flatten(replica.effect), LAMBDA flat :
      /\ [i \in 1..Len(replica.emitted.damage) |->
            replica.emitted.damage[i].amount] = IntentsOf(flat, "damage")
      /\ [i \in 1..Len(replica.emitted.gain_block) |->
            replica.emitted.gain_block[i].amount]
           = IntentsOf(flat, "gain_block")
      /\ [i \in 1..Len(replica.emitted.heal) |->
            replica.emitted.heal[i].amount] = IntentsOf(flat, "heal")
      /\ [i \in 1..Len(replica.emitted.draw) |->
            replica.emitted.draw[i].count] = IntentsOf(flat, "draw")
      /\ HandledDamage(events) = IntentsOf(flat, "damage"))

\* a Combo with a nested Combo between two damage intents was resolved and
\* its damage handled
C32_Witness ==
  /\ frame > 0
  /\ replica.effect.k = "Combo"
  /\ \E i \in 1..Len(replica.effect.effects) :
       replica.effect.effects[i].k = "Combo"
  /\ HandledDamage(events) = <<24, 8, 16, 32>>

(***************************************************************************)
(* The hooks of a drawn Status card: draw requests for a player with       *)
(* Evolve, Fire Breathing, both or neither, on piles that mix Status cards *)
(* with others                                                             *)
(***************************************************************************)
MaxHookSteps == 2
HookBonuses == {0, 1, 2}
HookFires == {0, 48}
HookCounts == {1, 2}
\* Slimed (303) and Dazed (300) are Status cards, Strike (1) is not
HookDecks == {<<1, 303, 1, 300, 303, 1>>, <<303, 303, 303, 303>>, <<1, 1>>}
HookDiscards == {<<>>, <<303, 1>>}
HookHands == {<<>>, <<1, 1, 1, 1, 1, 1, 1, 1>>}

InitHook ==
  \E draw \in HookBonuses, fire \in HookFires, deck \in HookDecks,
     discard \in HookDiscards, hand \in HookHands :
    \E w \in {[BareWorld(COST_RATE) EXCEPT
                 !.players["Local"].deck.cards = deck,
                 !.players["Local"].discard.cards = discard,
                 !.players["Local"].hand.cards = hand,
                 !.players["Local"].evolve =
                    IF draw = 0 THEN None
                    ELSE Some([draw_on_status |-> draw]),
                 !.players["Local"].fire_breathing =
                    IF fire = 0 THEN None
                    ELSE Some([damage_on_status_draw |-> fire])]} :
      /\ StartWith(w)
      /\ replica = [pre |-> w.players, requested |-> FALSE, count |-> 0]

\* handle_draw_cards on one DrawCardsMessage for the local player, no other
\* message pending
HookDraw(count) ==
  /\ frame < MaxHookSteps
  /\ frame' = frame + 1
  /\ SetWorld(handle_draw_cards(
                Write([World EXCEPT !.events = <<>>, !.msgs = NoMessages],
                      "draw", DrawCardsMessage("Local", count))))
  /\ replica' = [pre |-> players, requested |-> TRUE, count |-> count]
  /\ UNCHANGED result

NextHook == \E count \in HookCounts : HookDraw(count)

SpecHook == InitHook /\ [][NextHook]_vars

\* C33: within one draw request every Status card drawn adds the Evolve
\* bonus to the draws left and sends one damage intent of the Fire Breathing
\* amount, kind Power, to the opponent; a card that is no Status card does
\* neither.
C33_StatusHooks ==
  replica.requested =>
    LET pre == replica.pre["Local"]
        now == players["Local"]
        bonus == IF IsSome(pre.evolve) THEN Unwrap(pre.evolve).draw_on_status
                 ELSE 0
        fire == IF IsSome(pre.fire_breathing)
                THEN Unwrap(pre.fire_breathing).damage_on_status_draw ELSE 0
        statuses == StatusesIn(DrawnCards)
        budget == replica.count + bonus * statuses
    IN  /\ Len(DrawnCards) <= budget
        /\ Len(DrawnCards) < budget =>
             \/ Len(now.hand.cards) = MAX_HAND_SIZE
             \/ now.deck.cards = <<>> /\ now.discard.cards = <<>>
        /\ Len(msgs.damage) = (IF fire > 0 THEN statuses ELSE 0)
        /\ \A i \in 1..Len(msgs.damage) :
             msgs.damage[i]
               = DamageMessage("Opponent", fire, Some("Local"), "Power")
        /\ statuses = 0 => Len(DrawnCards) <= replica.count

\* one card requested under Evolve and Fire Breathing: Status cards chained
\* further draws and each sent its damage, and a Strike was drawn as well
C33_Witness ==
  /\ replica.requested
  /\ replica.count = 1
  /\ IsSome(players["Local"].evolve)
  /\ StatusesIn(DrawnCards) >= 2
  /\ Len(DrawnCards) > StatusesIn(DrawnCards)
  /\ Len(msgs.damage) = StatusesIn(DrawnCards)

(***************************************************************************)
(* Thorns against every kind of damage: attacks of one and of several      *)
(* hits, Body Slam, the self-damage of Bloodletting, Combust ticking, and  *)
(* the reflected damage itself, handled a step after it was written        *)
(***************************************************************************)
MaxThornsSteps == 3
ThornsOfLocal == {0, 40}
ThornsOfOpponent == {0, 80}
ThornsBlocks == {0, 4000}
ThornsEffects ==
  {[k |-> "MultiHit", damage |-> 16, hits |-> 3],
   [k |-> "Damage", amount |-> 48],
   [k |-> "BodySlam"],
   [k |-> "Bloodletting", amount |-> -24]}

InitThorns ==
  \E mine \in ThornsOfLocal, theirs \in ThornsOfOpponent,
     block \in ThornsBlocks :
    \E w \in {[BareWorld(COST_RATE) EXCEPT
                 !.players["Local"].thorns.damage = mine,
                 !.players["Local"].combust = Some(CombustEffect_new(8, 16)),
                 !.players["Opponent"].thorns.damage = theirs,
                 !.players["Opponent"].block.current = block,
                 !.players["Opponent"].health =
                    [current |-> 8000, max |-> 8000],
                 !.players["Local"].health =
                    [current |-> 8000, max |-> 8000]]} :
      /\ StartWith(w)
      /\ replica = [handled |-> <<>>]

\* the damage messages the Health systems of the step will read
ThornsStep(w) ==
  /\ frame < MaxThornsSteps
  /\ frame' = frame + 1
  /\ SetWorld(HealthSystems(apply_status_effects(Flush(w))))
  /\ replica' = [handled |-> w.msgs.damage]
  /\ UNCHANGED result

\* a card effect of the local player is resolved, then the Health systems run
ThornsPlay(effect) ==
  \E w \in {apply_card_effect(effect, "Local", "Opponent",
                              players["Local"].strength.amount,
                              [World EXCEPT !.events = <<>>])} :
    ThornsStep(w)

\* the powers tick, then the Health systems run
ThornsTick(delta) ==
  \E w \in {tick_power_effects_delta(delta, [World EXCEPT !.events = <<>>])} :
    ThornsStep(w)

NextThorns ==
  \/ \E effect \in ThornsEffects : ThornsPlay(effect)
  \/ \E delta \in {2} : ThornsTick(delta)

SpecThorns == InitThorns /\ [][NextThorns]_vars

\* The reflected intents the claim expects for the damage messages handled,
\* in order: one per attack-kind message from a known source on a target
\* with Thorns t > 0, of amount t, for the source; with positive_only, only
\* for messages of positive amount
RECURSIVE ExpectedReflections(_, _, _)
ExpectedReflections(handled, thorns, positive_only) ==
  IF handled = <<>> THEN <<>>
  ELSE (IF /\ Head(handled).kind = "Attack"
           /\ IsSome(Head(handled).source)
           /\ thorns[Head(handled).target] > 0
           /\ (positive_only => Head(handled).amount > 0)
        THEN <<DamageMessage(Unwrap(Head(handled).source),
                             thorns[Head(handled).target],
                             Some(Head(handled).target), "Thorns")>>
        ELSE <<>>)
       \o ExpectedReflections(Tail(handled), thorns, positive_only)

ThornsNow == [p \in Players |-> players[p].thorns.damage]

MaxCorruptionSteps == 2
CorruptionBalances == {0, 3, 4, 8}
CorruptionHands == {<<100, 1, 200>>, <<111, 303, 100>>}
CorruptionWords == {2, 4, 8, 12}

InitCorruption ==
  \E balance \in CorruptionBalances, cards \in CorruptionHands,
     corruption \in SpendCorruptions :
    \E w \in {[BareWorld(COST_RATE) EXCEPT
                 !.players["Local"].cost.current = balance,
                 !.players["Local"].hand.cards = cards,
                 !.players["Local"].deck.cards = <<7, 9>>,
                 !.players["Local"].corruption = corruption]} :
      /\ StartWith(w)
      /\ replica = [before |-> w.players["Local"], flags |-> 0]

\* GameplaySystems::Input, Deck and Effects of one frame for one input word
CorruptionPlay(flags) ==
  /\ frame < MaxCorruptionSteps
  /\ frame' = frame + 1
  /\ SetWorld(PlayingSystems(flags, [World EXCEPT !.events = <<>>]))
  /\ replica' = [before |-> players["Local"], flags |-> flags]
  /\ UNCHANGED result

NextCorruption == \E flags \in CorruptionWords : CorruptionPlay(flags)

SpecCorruption == InitCorruption /\ [][NextCorruption]_vars

\* The events of the last step of the given kind
EventsOfKind(kind) == SelectSeq(events, LAMBDA ev : ev.e = kind)

\* The number of copies of a card in a sequence of cards
CopiesIn(cards, card_id) ==
  Cardinality({i \in 1..Len(cards) : cards[i] = card_id})

\* C35: with Corruption attached, a play request for a Skill in a valid slot
\* is accepted from any balance and leaves the balance as it was, the card
\* leaves the hand and is not returned to the deck, and exactly one
\* card-exhausted notification is emitted for it; any other card is played
\* only for its printed cost.
C35_CorruptionSkills ==
  LET before == replica.before
      now == players["Local"]
      slot == ServedSlot(replica.flags, 0)
  IN  (replica.flags # 0 /\ slot # NoCard /\ slot < Len(before.hand.cards)) =>
        LET card_id == before.hand.cards[slot + 1]
            card_def == Unwrap(CardRegistry_get(card_id))
            requested == EventsOfKind("PlayRequested")
            exhausted == EventsOfKind("CardExhausted")
        IN  IF IsSome(before.corruption) /\ card_def.card_type = "Skill"
            THEN /\ before.cost.current >= 0
                 /\ requested = <<[e |-> "PlayRequested", player |-> "Local",
                                   hand_index |-> slot]>>
                 /\ now.cost.current = before.cost.current
                 /\ now.hand.cards = Hand_remove_card(before.hand.cards,
                                                      slot).cards
                 /\ now.deck.cards = before.deck.cards
                 /\ now.discard.cards = before.discard.cards
                 /\ exhausted = <<[e |-> "CardExhausted", player |-> "Local",
                                   card_id |-> card_id]>>
            ELSE IF before.cost.current >= card_def.cost
                 THEN /\ Len(requested) = 1
                      /\ now.cost.current = before.cost.current - card_def.cost
                 ELSE /\ requested = <<>>
                      /\ now.cost = before.cost
                      /\ now.hand = before.hand

\* a Skill of printed cost 2.0 was played from an empty balance under
\* Corruption: the balance is still empty, the card is in no pile, and one
\* card-exhausted notification was emitted
C35_Witness ==
  /\ IsSome(replica.before.corruption)
  /\ replica.flags = 2
  /\ replica.before.hand.cards = <<111, 303, 100>>
  /\ replica.before.cost.current = 0
  /\ players["Local"].cost.current = 0
  /\ players["Local"].hand.cards = <<303, 100>>
  /\ CopiesIn(players["Local"].deck.cards, 111) = 0
  /\ Len(EventsOfKind("CardExhausted")) = 1


(***************************************************************************)
(* The exhaust hooks: Dark Embrace and Feel No Pain are played, then cards *)
(* are exhausted by their Exhaust effect and by Corruption                 *)
(***************************************************************************)
MaxExhaustSteps == 4
ExhaustHands == {<<201, 203, 303, 102>>, <<303, 203, 102, 201>>,
                 <<102, 1, 303>>}
ExhaustWords == {2, 4, 8}

InitExhaust ==
  \E cards \in ExhaustHands, corruption \in SpendCorruptions :
    \E w \in {[BareWorld(COST_RATE) EXCEPT
                 !.players["Local"].cost.current = 40,
                 !.players["Local"].hand.cards = cards,
                 !.players["Local"].deck.cards = <<1, 1>>,
                 !.players["Local"].corruption = corruption]} :
      /\ StartWith(w)
      /\ replica = [before |-> w.players, gain_block |-> <<>>]

\* GameplaySystems::Input, Deck and Effects of one frame for one input word
ExhaustPlay(flags) ==
  /\ frame < MaxExhaustSteps
  /\ frame' = frame + 1
  /\ SetWorld(PlayingSystems(flags, [World EXCEPT !.events = <<>>]))
  /\ replica' = [before |-> players, gain_block |-> msgs.gain_block]
  /\ UNCHANGED result

NextExhaust == \E flags \in ExhaustWords : ExhaustPlay(flags)

SpecExhaust == InitExhaust /\ [][NextExhaust]_vars

\* What the hook of a power answers to the notifications, in order: one
\* message per notification of a player whose power has a positive amount
RECURSIVE HookAnswers(_, _, _, _)
HookAnswers(Message(_, _), notified, power, field) ==
  IF notified = <<>> THEN <<>>
  ELSE LET p == Head(notified).player
           has == IsSome(replica.before[p][power])
                  /\ Unwrap(replica.before[p][power])[field] > 0
       IN  (IF has
            THEN <<Message(p, Unwrap(replica.before[p][power])[field])>>
            ELSE <<>>)
           \o HookAnswers(Message, Tail(notified), power, field)

\* C36: for every card-exhausted notification of a player, exactly one draw
\* request of draw_on_exhaust cards is written when the player has Dark
\* Embrace, and exactly one Block gain of block_on_exhaust when the player
\* has Feel No Pain; a player with neither power gets neither.
C36_ExhaustHooks ==
  /\ msgs.draw = HookAnswers(DrawCardsMessage, EventsOfKind("CardExhausted"),
                             "dark_embrace", "draw_on_exhaust")
  /\ msgs.gain_block =
       replica.gain_block
         \o HookAnswers(TargetAmount, EventsOfKind("CardExhausted"),
                        "feel_no_pain", "block_on_exhaust")

\* a Skill was exhausted by Corruption with both powers attached: one draw
\* request of one card and one Block gain of 30 were written
C36_Witness ==
  /\ Len(EventsOfKind("CardExhausted")) = 1
  /\ EventsOfKind("CardExhausted")[1].card_id = 102
  /\ IsSome(replica.before["Local"].dark_embrace)
  /\ IsSome(replica.before["Local"].feel_no_pain)
  /\ msgs.draw = <<DrawCardsMessage("Local", 1)>>
  /\ msgs.gain_block # <<>>
  /\ msgs.gain_block[Len(msgs.gain_block)] = TargetAmount("Local", 240)


(***************************************************************************)
(* Where a played card goes: Attacks, Skills, Powers and Status cards      *)
(* played from hands holding copies, with and without Corruption           *)
(***************************************************************************)
MaxDispositionSteps == 3
DispositionHands == {<<1, 200, 1, 303, 100>>, <<100, 1, 211, 102>>}
DispositionCards == {1, 100, 102, 200, 211, 303}
DispositionWords == {2, 4, 8, 16, 32}

InitDisposition ==
  \E cards \in DispositionHands, corruption \in SpendCorruptions :
    \E w \in {[BareWorld(COST_RATE) EXCEPT
                 !.players["Local"].cost.current = 40,
                 !.players["Local"].hand.cards = cards,
                 !.players["Local"].deck.cards = <<1, 100>>,
                 !.players["Local"].discard.cards = <<1>>,
                 !.players["Local"].corruption = corruption]} :
      /\ StartWith(w)
      /\ replica = [before |-> w.players["Local"]]

\* GameplaySystems::Input, Deck and Effects of one frame for one input word
DispositionPlay(flags) ==
  /\ frame < MaxDispositionSteps
  /\ frame' = frame + 1
  /\ SetWorld(PlayingSystems(flags, [World EXCEPT !.events = <<>>]))
  /\ replica' = [before |-> players["Local"]]
  /\ UNCHANGED result

NextDisposition == \E flags \in DispositionWords : DispositionPlay(flags)

SpecDisposition == InitDisposition /\ [][NextDisposition]_vars

\* The copies of a card a player holds in Hand, Deck and DiscardPile
CopiesHeld(pl, card_id) ==
  CopiesIn(pl.hand.cards, card_id) + CopiesIn(pl.deck.cards, card_id)
    + CopiesIn(pl.discard.cards, card_id)

\* C37: a play action for a valid hand slot removes exactly that card from
\* the Hand, the cards after it moving down one slot in order, and emits
\* exactly one card-played notification; the card is appended to the Deck
\* unless it is a Power, has the Exhaust effect or is a Skill played under
\* Corruption, and then it goes to no pile; no copy is gained anywhere.
C37_Disposition ==
  LET before == replica.before
      now == players["Local"]
      requested == EventsOfKind("PlayRequested")
  IN  requested # <<>> =>
        LET slot == requested[1].hand_index
            card_id == before.hand.cards[slot + 1]
            card_def == Unwrap(CardRegistry_get(card_id))
            kept == \/ card_def.card_type = "Power"
                    \/ card_def.effect.k = "Exhaust"
                    \/ (card_def.card_type = "Skill"
                        /\ IsSome(before.corruption))
        IN  /\ Len(requested) = 1
            /\ slot < Len(before.hand.cards)
            /\ now.hand.cards =
                 [i \in 1..(Len(before.hand.cards) - 1) |->
                    IF i <= slot THEN before.hand.cards[i]
                    ELSE before.hand.cards[i + 1]]
            /\ EventsOfKind("CardPlayed") =
                 <<[e |-> "CardPlayed", player |-> "Local",
                    card_id |-> card_id]>>
            /\ now.deck.cards = IF kept THEN before.deck.cards
                                ELSE Append(before.deck.cards, card_id)
            /\ now.discard.cards = before.discard.cards
            /\ \A c \in DispositionCards :
                 CopiesHeld(now, c) =
                   CopiesHeld(before, c) - (IF kept /\ c = card_id THEN 1 ELSE 0)

\* the first of two Strikes was played from slot 0 with a Power behind it:
\* the Power and the second Strike moved down, and the Strike is the last
\* card of the Deck
C37_Witness ==
  /\ replica.before.hand.cards = <<1, 200, 1, 303, 100>>
  /\ players["Local"].hand.cards = <<200, 1, 303, 100>>
  /\ players["Local"].deck.cards = <<1, 100, 1>>
  /\ Len(EventsOfKind("CardPlayed")) = 1


(***************************************************************************)
(* Block over the frames of a match: the tick systems of a frame, then its *)
(* input, deck, effect and health systems, for a player who gains Block,   *)
(* plays Barricade and Metallicize and damages themself                    *)
(***************************************************************************)
MaxBlockFrames == 4
BlockHands == {<<100, 208, 108, 206, 111>>, <<108, 100, 100, 208, 1>>}
BlockWords == {0, 2, 4}

BlockNow == [p \in Players |-> players[p].block.current]

InitBlock ==
  \E cards \in BlockHands :
    \E w \in {[BareWorld(COST_RATE) EXCEPT
                 !.players["Local"].cost.current = 40,
                 !.players["Local"].hand.cards = cards,
                 !.players["Local"].deck.cards = <<1, 1>>]} :
      /\ StartWith(w)
      /\ replica = [phase |-> "resolved", delta |-> 0,
                    block |-> [p \in Players |-> 0],
                    barricade |-> [p \in Players |-> FALSE]]

\* AppSystems::TickTimers of a frame
BlockTick(order, delta) ==
  /\ frame < MaxBlockFrames
  /\ replica.phase = "resolved"
  /\ frame' = frame + 1
  /\ SetWorld(RunTickSystems(order, 1, delta, [World EXCEPT !.events = <<>>]))
  /\ replica' = [phase |-> "ticked", delta |-> delta, block |-> BlockNow,
                 barricade |-> [p \in Players |-> IsSome(players[p].barricade)]]
  /\ UNCHANGED result

\* GameplaySystems::Input, Deck, Effects and Health of the frame
BlockResolve(flags) ==
  /\ replica.phase = "ticked"
  /\ SetWorld(HealthSystems(PlayingSystems(flags,
                                           [World EXCEPT !.events = <<>>])))
  /\ replica' = [phase |-> "resolved", delta |-> 0, block |-> BlockNow,
                 barricade |-> [p \in Players |-> IsSome(players[p].barricade)]]
  /\ UNCHANGED <<result, frame>>

NextBlock ==
  \/ \E order \in TickOrders, delta \in Deltas : BlockTick(order, delta)
  \/ \E flags \in BlockWords : BlockResolve(flags)

SpecBlock == InitBlock /\ [][NextBlock]_vars

\* What Block absorbed of the damage handled for a player in the last step
RECURSIVE AbsorbedFrom(_, _)
AbsorbedFrom(log, p) ==
  IF log = <<>> THEN 0
  ELSE (IF Head(log).e = "Damage" /\ Head(log).target = p
        THEN Head(log).block - Head(log).block_after ELSE 0)
       + AbsorbedFrom(Tail(log), p)

\* C38: Block is never negative; without Barricade a tick lowers a positive
\* Block by BLOCK_DECAY_RATE * delta, floored at 0; with Barricade attached
\* a tick leaves Block as it was, and the rest of the frame lowers it by no
\* more than what it absorbed of the damage handled.
C38_BlockDecay ==
  \A p \in Players :
    /\ players[p].block.current >= 0
    /\ replica.phase = "ticked" =>
         players[p].block.current =
           IF replica.barricade[p] \/ replica.block[p] <= 0
           THEN replica.block[p]
           ELSE IF replica.block[p] > BLOCK_DECAY_RATE * 4 * replica.delta
                THEN replica.block[p] - BLOCK_DECAY_RATE * 4 * replica.delta
                ELSE 0
    /\ (replica.phase = "resolved" /\ replica.barricade[p]) =>
         /\ players[p].block.current >=
              replica.block[p] - AbsorbedFrom(events, p)
         /\ (AbsorbedFrom(events, p) = 0 =>
               players[p].block.current >= replica.block[p])

\* Block 50 met a tick of 2 s under Barricade and is still 50
C38_Witness ==
  /\ replica.phase = "ticked"
  /\ replica.delta = 4
  /\ replica.barricade["Local"]
  /\ replica.block["Local"] = 400
  /\ players["Local"].block.current = 400

(***************************************************************************)
(* The two peers of an online match, each running GgrsSchedule on the same *)
(* confirmed pair of input words: the variables hold the peer of handle 0, *)
(* replica.other the peer of handle 1                                      *)
(***************************************************************************)
MaxPeerFrames == 3
PeerWarmUps == {0, 19}
PeerDecks == {<<1, 1, 1, 1, 1, 1>>, <<1, 100, 1, 1, 100, 1>>}
PeerWords == {0, 2}
LastSlotWord == 1024     \* card_flag(9), a slot the initial hand leaves empty

\* spawn_level_once on the peer whose LocalPlayer has the given handle
PeerLevel(match_seed, deck, local_handle) ==
  [SpawnLevel(match_seed, deck) EXCEPT
     !.players["Local"] =
        PlayerBundle_new(match_seed, local_handle, COST_RATE, deck, PLAYER_HP),
     !.players["Opponent"] =
        PlayerBundle_new(match_seed, 1 - local_handle, COST_RATE, deck,
                         PLAYER_HP)]

\* n frames in which both users press the key of the last hand slot
RECURSIVE WarmUpPeers(_, _)
WarmUpPeers(pair, n) ==
  IF n = 0 THEN pair
  ELSE Bind(AdvanceReplica(pair.mine, 0, LastSlotWord, LastSlotWord, 1),
            LAMBDA mine :
         Bind(AdvanceReplica(pair.other, 0, LastSlotWord, LastSlotWord, 1),
              LAMBDA other :
           IF IsSome(mine.w.next_result) \/ IsSome(other.w.next_result)
           THEN [mine |-> mine, other |-> other]
           ELSE WarmUpPeers([mine |-> mine, other |-> other], n - 1)))

InitPeers ==
  \E deck \in PeerDecks, n \in PeerWarmUps :
    \E pair \in {WarmUpPeers(
                   [mine |-> [w |-> PeerLevel(U64FromInt(7), deck, 0),
                              pending |-> NoPending, result |-> "Playing"],
                    other |-> [w |-> PeerLevel(U64FromInt(7), deck, 1),
                               pending |-> NoPending, result |-> "Playing"]],
                   n)} :
      /\ players = pair.mine.w.players
      /\ msgs = pair.mine.w.msgs
      /\ changed = pair.mine.w.changed
      /\ next_result = pair.mine.w.next_result
      /\ events = <<>>
      /\ result = pair.mine.result
      /\ frame = 0
      /\ replica = [pending |-> pair.mine.pending,
                    other |-> [pair.other EXCEPT !.w.events = <<>>]]

\* One confirmed frame on both peers: each runs its own word as the local
\* one and the word of the other as the remote one
PeersFrame(mine, theirs, delta, slot) ==
  /\ frame < MaxPeerFrames
  /\ frame' = frame + 1
  /\ result' = CurrentResult
  /\ \E next \in {AdvanceReplica(MainOnline, slot, mine, theirs, delta)} :
       /\ SetWorld(next.w)
       /\ replica' =
            [pending |-> next.pending,
             other |-> AdvanceReplica(replica.other, slot, theirs, mine,
                                      delta)]

NextPeers ==
  \E mine \in PeerWords, theirs \in PeerWords, delta \in Deltas,
     slot \in NetworkSlots :
    PeersFrame(mine, theirs, delta, slot)

SpecPeers == InitPeers /\ [][NextPeers]_vars

\* C39: the result recorded by one peer is Victory exactly when the result
\* recorded by the other peer is Defeat, in every tick, the one in which
\* both players reach Health 0 included; the peers never both record
\* Victory and never both record Defeat.
C39_ResultsComplementary ==
  /\ CurrentResult = "Victory" <=> ReplicaResult(replica.other) = "Defeat"
  /\ CurrentResult = "Defeat" <=> ReplicaResult(replica.other) = "Victory"


(***************************************************************************)
(* GameMode over the screens: matches are started from the lobby and from  *)
(* the Solo button, played, and left through the result overlay.  replica  *)
(* holds the screen, the GameMode resource, whether the Session resource   *)
(* exists, how the current match was started, the Pending* accumulators of *)
(* the network chain, the matches started and the frames of the current    *)
(* one; players are the player entities while the screen is Gameplay.      *)
(***************************************************************************)
MaxModeFrames == 2
MaxModeMatches == 2
ModeWords == {0, 2}
ModeHandles == {0, 1}

InitMode ==
  /\ StartWith(BareWorld(COST_RATE))
  /\ replica = [screen |-> "Title", game_mode |-> "Offline",
                session |-> FALSE, started_by |-> "Nothing",
                pending |-> NoPending, matches |-> 0, age |-> 0]

\* enter_lobby_screen
LobbyButton ==
  /\ replica.screen = "Title"
  /\ replica.matches < MaxModeMatches
  /\ replica' = [replica EXCEPT !.screen = "Lobby"]
  /\ UNCHANGED <<players, msgs, changed, result, next_result, events, frame>>

\* The frame that enters Screen::Gameplay: OnEnter runs reset_game_result,
\* spawn_level_once spawns the players with the handles of the mode
EnterMatch(deck, local_handle, update) ==
  /\ \E w \in {PeerLevel(U64FromInt(7), deck, local_handle)} :
       /\ players' = w.players
       /\ msgs' = w.msgs
       /\ changed' = w.changed
       /\ events' = w.events
  /\ result' = CurrentResult
  /\ next_result' = Some("Playing")
  /\ frame' = frame + 1
  /\ replica' = [update EXCEPT !.screen = "Gameplay", !.matches = @ + 1,
                               !.age = 0]

\* lobby_system: the session is built, the Session resource inserted and
\* GameMode set to Online; once the session runs the screen is Gameplay
LobbyStarts(deck, local_handle) ==
  /\ replica.screen = "Lobby"
  /\ EnterMatch(deck, local_handle,
                [replica EXCEPT !.session = TRUE, !.game_mode = "Online",
                                !.started_by = "Lobby"])

\* enter_loading_or_gameplay_screen (the Solo button); spawn_level_once
\* takes the handles from NetworkPlayers when GameMode is Online
SoloButton(deck, local_handle) ==
  /\ replica.screen = "Title"
  /\ replica.matches < MaxModeMatches
  /\ replica.game_mode = "Offline" => local_handle = 0
  /\ EnterMatch(deck, local_handle, [replica EXCEPT !.started_by = "Solo"])

\* One frame in Screen::Gameplay: the systems gated by is_offline run when
\* GameMode is Offline; when it is Online the simulation is GgrsSchedule,
\* which runs when the session advances a frame
ModeFrame(keys, remote, delta, slot, advances) ==
  /\ replica.screen = "Gameplay"
  /\ replica.age < MaxModeFrames
  /\ replica.game_mode = "Offline" => (remote = 0 /\ slot = 0 /\ advances)
  /\ frame' = frame + 1
  /\ result' = CurrentResult
  /\ IF replica.game_mode = "Offline"
     THEN /\ SetWorld(OfflineFrame(RegistrationOrder,
                                   IF CurrentResult = "Playing" THEN keys
                                   ELSE 0,
                                   delta, CurrentResult,
                                   [World EXCEPT !.next_result = None]))
          /\ replica' = [replica EXCEPT !.age = @ + 1]
     ELSE IF advances
     THEN \E next \in {AdvanceReplica(MainOnline, slot, keys, remote, delta)} :
            /\ SetWorld(next.w)
            /\ replica' = [replica EXCEPT !.pending = next.pending,
                                          !.age = @ + 1]
     ELSE /\ SetWorld([World EXCEPT !.next_result = None, !.events = <<>>])
          /\ replica' = [replica EXCEPT !.age = @ + 1]

\* handle_result_input in a frame whose GameResult is not Playing: Space on
\* the result overlay, then OnExit(Screen::Gameplay)
ResultSpace ==
  /\ replica.screen = "Gameplay"
  /\ CurrentResult # "Playing"
  /\ result' = CurrentResult
  /\ next_result' = None
  /\ replica' = [replica EXCEPT !.screen = "Title"]
  /\ msgs' = NoMessages
  /\ changed' = {}
  /\ events' = <<>>
  /\ UNCHANGED <<players, frame>>

NextMode ==
  \/ LobbyButton
  \/ \E deck \in PeerDecks, local_handle \in ModeHandles :
       LobbyStarts(deck, local_handle)
  \/ \E deck \in PeerDecks, local_handle \in ModeHandles :
       SoloButton(deck, local_handle)
  \/ \E keys \in ModeWords, remote \in ModeWords, delta \in Deltas,
        slot \in NetworkSlots, advances \in BOOLEAN :
       ModeFrame(keys, remote, delta, slot, advances)
  \/ ResultSpace

SpecMode == InitMode /\ [][NextMode]_vars

\* C40: in a match GameMode is Online exactly when the match was started
\* through the lobby with a session; a Solo match started from the menu,
\* after an online match as well, runs with GameMode Offline.
C40_ModeFollowsSession ==
  replica.screen = "Gameplay" =>
    /\ replica.game_mode = "Online" <=> replica.started_by = "Lobby"
    /\ replica.game_mode = "Online" => replica.session


====
